---- MODULE Spec2Model ----
(***************************************************************************)
(* Session context cache, catalog loaders, name resolver and nearest-      *)
(* cluster resolver of the Truliv voice agent (src/agent/agent_tools.py,   *)
(* src/agent/main.py).                                                     *)
(*                                                                         *)
(* Python dicts are functions whose DOMAIN is the set of present keys.     *)
(* A dotted field path is the sequence of its segments; a string that the  *)
(* code trims, lowercases or searches is a sequence of one-character       *)
(* strings.                                                                *)
(***************************************************************************)
EXTENDS Integers, Sequences, FiniteSets, TLC

\* ------------------------------------------------------------------ bounds
MaxOps == 3        \* set / update / clear operations issued through the cache API
MaxFlush == 2      \* flush_cached_context calls
MaxInFlight == 1   \* flush coroutines suspended at the same time
MaxCalls == 2      \* call sessions started over the run
MaxActive == 2     \* call sessions alive at the same time
MaxWorkers == 3    \* coroutines that call the catalog loaders
MaxLoads == 4      \* loader calls issued over the run
MaxCatalog == 2    \* entries of the Warden property list
MaxNameLen == 2    \* characters of a stored property name
MaxInputLen == 3   \* characters of a name passed to the resolver
MaxRows == 8       \* rows of a pricing sheet whose rows all name different properties
MaxSmallRows == 3  \* rows of a pricing sheet whose rows may repeat a property
MaxNearCalls == 1  \* find_nearest_property calls in one behaviour
MaxBudgetCalls == 1 \* properties_according_to_budget calls in one behaviour
MaxAvailCalls == 1 \* availability tool calls in one behaviour
MaxProps == 2      \* property records of an availability response
MaxRooms == 2      \* room types of one property record
MaxBudgetRows == 2 \* rows of a pricing sheet given to the budget resolver
MaxQueryLen == 2   \* characters of a free-form budget sentence
MaxTools == 1      \* profile-updating tool calls of one session
MaxTextLen == 2    \* characters of the text an exception carries
MaxExploreRows == 2   \* rows of the sheet explore_more_properties fetches
MaxExploreCalls == 1  \* explore_more_properties calls in a behaviour
MaxToolRuns == 2      \* tool invocations of one call on the event loop
MaxDbCallers == 3     \* coroutines calling get_async_client on one loop
MaxDbCalls == 2       \* get_async_client calls of one coroutine

\* ------------------------------------------------------------ input sets
UserIds == {"u1", "u2"}
Vals == {"v1", "v2"}
Paths == {<<"context_data", "name">>, <<"profile", "name">>}
FlushTasks == 1..MaxInFlight
Calls == 1..MaxActive

EmptyDict == [k \in {} |-> "v1"]

\* d[k] = v, as a Python dict assignment
DictPut(d, k, v) == [x \in (DOMAIN d) \cup {k} |-> IF x = k THEN v ELSE d[x]]

\* del d[k]
DictDel(d, k) == [x \in (DOMAIN d) \ {k} |-> d[x]]

\* a field-update mapping: (path, value) pairs in insertion order, keys distinct
UpdateMaps ==
    {<<>>}
    \cup {<<<<p, v>>>> : p \in Paths, v \in Vals}
    \cup {<<<<<<"context_data", "name">>, v>>, <<<<"profile", "name">>, w>>>> : v \in Vals, w \in Vals}

ContextChoices == {DictPut(EmptyDict, <<"name">>, "v1")}

VARIABLES
    user_context_cache,   \* _user_context_cache: user_id -> cache entry
    context_collection,   \* the durable store: _id -> document (full path -> value)
    flushTask,            \* one record per suspended flush_cached_context coroutine
    lastFlush,            \* what the flush that returned last did
    updLog,               \* per id, the (path, value) pairs updated since the entry was installed
    installed,            \* the ids whose current entry was installed by set_cached_context
    lastOp,               \* per id, the last operation completed on it
    nOps,                 \* number of set / update / clear operations issued
    nFlush                \* number of flush calls issued

cacheVars == <<user_context_cache, context_collection, flushTask, lastFlush, updLog,
               installed, lastOp, nOps, nFlush>>

VARIABLES
    call,                 \* per call session of truliv_agent: its position and locals
    flushOwner,           \* the call whose _cleanup awaits each flush coroutine (0: none)
    lostPending,          \* a close handler removed an entry holding unwritten updates
    started               \* per id, the number of call sessions started for it

sessVars == <<call, flushOwner, lostPending, started>>

VARIABLES
    sheet_properties_cache,   \* <<>> is None, <<df>> the cached DataFrame
    properties_data_cache,    \* <<>> is None, <<list>> the cached Warden property list
    properties_lock,          \* _properties_lock: asyncio.Lock
    loader,                   \* per worker, where it stands inside a loader
    loadStats,                \* what the loaders have done so far
    nLoads                    \* loader calls issued

loadVars == <<sheet_properties_cache, properties_data_cache, properties_lock, loader,
              loadStats, nLoads>>

VARIABLES
    nameCall,                 \* the last get_properties_id_from_name call and its result
    nearCall,                 \* the last find_nearest_property call and what it resolved
    budgetCall,               \* the last properties_according_to_budget call, likewise
    availCall,                \* the last availability tool call and its result
    bed_availability          \* what the Warden /bed-availability endpoint answers

toolVars == <<nameCall, nearCall, budgetCall, availCall, bed_availability>>

VARIABLES
    exploreCall               \* the last explore_more_properties call and its result

VARIABLES
    task,                     \* per call: where its tool coroutine stands on the event loop
    running                   \* the call whose coroutine holds the loop's thread (0: none)

schedVars == <<task, running>>

VARIABLES
    clients,                  \* _clients[loop] of database.py: <<>> or <<client>>
    dbTask,                   \* per caller of get_async_client: its position and locals
    nClients                  \* AsyncIOMotorClient objects constructed so far

dbVars == <<clients, dbTask, nClients>>

moreVars == <<exploreCall, schedVars, dbVars>>

vars == <<cacheVars, sessVars, loadVars, toolVars, moreVars>>

\* ------------------------------------------------------------ cache entry
NewEntry(ctx) == [context_data |-> ctx, dirty |-> FALSE, pending_updates |-> EmptyDict]

\* str.replace("context_data.", ""): every segment "context_data" that is
\* followed by a dot disappears; a path's final segment is never followed by one
RECURSIVE clean_key(_)
clean_key(key) ==
    IF Len(key) <= 1 THEN key
    ELSE IF Head(key) = "context_data" THEN clean_key(Tail(key))
    ELSE <<Head(key)>> \o clean_key(Tail(key))

\* a lookup that answers an empty context for an id it does not hold
get_cached_context_Default(cache, user_id) ==
    <<TRUE, IF user_id \in DOMAIN cache THEN cache[user_id].context_data ELSE EmptyDict>>

get_cached_context(cache, user_id) ==
    IF user_id \in DOMAIN cache THEN <<TRUE, cache[user_id].context_data>> ELSE <<FALSE, EmptyDict>>

set_cached_context(cache, user_id, context_data) ==
    DictPut(cache, user_id, NewEntry(context_data))

\* a loop body that keeps the value a path was first given
RECURSIVE ApplyUpdates_KeepFirst(_, _)
ApplyUpdates_KeepFirst(entry, updates) ==
    IF updates = <<>> THEN entry
    ELSE LET key == Head(updates)[1]
             value == Head(updates)[2]
         IN ApplyUpdates_KeepFirst([entry EXCEPT
                 !.context_data = DictPut(@, clean_key(key), value),
                 !.pending_updates = IF key \in DOMAIN @ THEN @ ELSE DictPut(@, key, value)],
              Tail(updates))

\* the loop body of update_cached_context, over the mapping's items in order
RECURSIVE ApplyUpdates(_, _)
ApplyUpdates(entry, updates) ==
    IF updates = <<>> THEN entry
    ELSE LET key == Head(updates)[1]
             value == Head(updates)[2]
         IN ApplyUpdates([entry EXCEPT
                 !.context_data = DictPut(@, clean_key(key), value),
                 !.pending_updates = DictPut(@, key, value)],
              Tail(updates))

\* an update that does not mark the entry dirty
update_cached_context_LeavesClean(cache, user_id, updates) ==
    LET entry == IF user_id \in DOMAIN cache THEN cache[user_id] ELSE NewEntry(EmptyDict)
    IN DictPut(cache, user_id, ApplyUpdates(entry, updates))

update_cached_context(cache, user_id, updates) ==
    LET entry == IF user_id \in DOMAIN cache THEN cache[user_id] ELSE NewEntry(EmptyDict)
    IN DictPut(cache, user_id, [ApplyUpdates(entry, updates) EXCEPT !.dirty = TRUE])

\* a clear that leaves the entry in place
clear_cached_context_Keeps(cache, user_id) == cache

clear_cached_context(cache, user_id) ==
    IF user_id \in DOMAIN cache THEN DictDel(cache, user_id) ELSE cache

\* update_one({"_id": user_id}, {"$set": fields}, upsert=True)
update_one_set(coll, user_id, fields) ==
    LET doc == IF user_id \in DOMAIN coll THEN coll[user_id] ELSE EmptyDict
    IN DictPut(coll, user_id,
               [p \in (DOMAIN doc) \cup (DOMAIN fields) |->
                   IF p \in DOMAIN fields THEN fields[p] ELSE doc[p]])

\* ------------------------------------------------- flush_cached_context
\* A flush coroutine holds a reference to the entry it found (cache_entry).
\* While that object is still the one in the cache the task is attached and
\* sees every later mutation; once the cache drops or replaces the object the
\* task keeps the object as it was at that moment (snap).
IdleTask == [pc |-> "idle", id |-> "u1", attached |-> FALSE, snap |-> NewEntry(EmptyDict),
             sent |-> EmptyDict, start |-> NewEntry(EmptyDict), disturbed |-> FALSE,
             after |-> [kind |-> "other", pending |-> EmptyDict],
             log |-> <<>>, viaSet |-> FALSE]

Suspended == {"await_collection", "update_one_called", "update_one_sent"}

OtherOp == [kind |-> "other", pending |-> EmptyDict]

NoFlush == [done |-> FALSE, id |-> "u1", ret |-> FALSE, found |-> FALSE, wrote |-> <<>>,
            before |-> [u \in {} |-> EmptyDict], stored |-> [u \in {} |-> EmptyDict],
            start |-> NewEntry(EmptyDict), left |-> <<FALSE, NewEntry(EmptyDict)>>,
            disturbed |-> FALSE, after |-> OtherOp, log |-> <<>>, viaSet |-> FALSE]

cache_entry(t) ==
    IF flushTask[t].attached THEN user_context_cache[flushTask[t].id] ELSE flushTask[t].snap

\* the tasks other than `self` after the entry object of user_id left the cache
Detach(tasks, self, user_id) ==
    [t \in FlushTasks |->
        IF t # self /\ tasks[t].id = user_id /\ tasks[t].pc \in Suspended
        THEN IF tasks[t].attached
             THEN [tasks[t] EXCEPT !.attached = FALSE, !.snap = user_context_cache[user_id],
                                   !.disturbed = TRUE]
             ELSE [tasks[t] EXCEPT !.disturbed = TRUE]
        ELSE tasks[t]]

\* the tasks after another operation touched user_id without replacing its object
Disturb(tasks, user_id) ==
    [t \in FlushTasks |->
        IF tasks[t].id = user_id /\ tasks[t].pc \in Suspended
        THEN [tasks[t] EXCEPT !.disturbed = TRUE]
        ELSE tasks[t]]

\* what a returning flush is remembered by
Returned(rec, ret, found, wrote, cacheAfter, stored) ==
    [done |-> TRUE, id |-> rec.id, ret |-> ret, found |-> found, wrote |-> wrote,
     before |-> context_collection, stored |-> stored, start |-> rec.start,
     left |-> IF rec.id \in DOMAIN cacheAfter THEN <<TRUE, cacheAfter[rec.id]>>
                                             ELSE <<FALSE, NewEntry(EmptyDict)>>,
     disturbed |-> rec.disturbed, after |-> rec.after, log |-> rec.log, viaSet |-> rec.viaSet]

\* ------------------------------------------------------------ operations
DoSet(user_id, ctx) ==
    /\ user_context_cache' = set_cached_context(user_context_cache, user_id, ctx)
    /\ flushTask' = Detach(flushTask, 0, user_id)
    /\ updLog' = [updLog EXCEPT ![user_id] = <<>>]
    /\ installed' = installed \cup {user_id}
    /\ lastOp' = [lastOp EXCEPT ![user_id] = OtherOp]
    /\ UNCHANGED <<context_collection, lastFlush, nFlush>>

DoUpdate(user_id, updates) ==
    /\ user_context_cache' = update_cached_context(user_context_cache, user_id, updates)
    /\ flushTask' = Disturb(flushTask, user_id)
    /\ updLog' = [updLog EXCEPT ![user_id] = @ \o updates]
    /\ lastOp' = [lastOp EXCEPT ![user_id] = OtherOp]
    /\ UNCHANGED <<context_collection, lastFlush, installed, nFlush>>

\* a clear that writes the entry's pending updates to the store before it
\* drops the entry
DoClear_Persists(user_id) ==
    /\ user_context_cache' = clear_cached_context(user_context_cache, user_id)
    /\ context_collection' =
           IF user_id \in DOMAIN user_context_cache
              /\ DOMAIN user_context_cache[user_id].pending_updates # {}
           THEN update_one_set(context_collection, user_id,
                               user_context_cache[user_id].pending_updates)
           ELSE context_collection
    /\ flushTask' = Detach(flushTask, 0, user_id)
    /\ updLog' = [updLog EXCEPT ![user_id] = <<>>]
    /\ installed' = installed \ {user_id}
    /\ lastOp' = [lastOp EXCEPT ![user_id] = OtherOp]
    /\ UNCHANGED <<lastFlush, nFlush>>

DoClear(user_id) ==
    /\ user_context_cache' = clear_cached_context(user_context_cache, user_id)
    /\ flushTask' = Detach(flushTask, 0, user_id)
    /\ updLog' = [updLog EXCEPT ![user_id] = <<>>]
    /\ installed' = installed \ {user_id}
    /\ lastOp' = [lastOp EXCEPT ![user_id] = OtherOp]
    /\ UNCHANGED <<context_collection, lastFlush, nFlush>>

\* the cache API as a caller outside a call session drives it
Set(user_id, ctx) == nOps < MaxOps /\ nOps' = nOps + 1 /\ DoSet(user_id, ctx)

Update(user_id, updates) == nOps < MaxOps /\ nOps' = nOps + 1 /\ DoUpdate(user_id, updates)

Clear(user_id) == nOps < MaxOps /\ nOps' = nOps + 1 /\ DoClear(user_id)

\* flush_cached_context up to its first await (lines 90-101)
FlushCall(t, user_id) ==
    /\ nFlush < MaxFlush
    /\ flushTask[t].pc = "idle"
    /\ \A s \in FlushTasks : s < t => flushTask[s].pc # "idle"
    /\ nFlush' = nFlush + 1
    /\ LET rec == [flushTask[t] EXCEPT !.id = user_id, !.after = lastOp[user_id],
                       !.log = updLog[user_id], !.viaSet = (user_id \in installed)]
       IN IF user_id \notin DOMAIN user_context_cache
          THEN /\ lastFlush' = Returned(rec, FALSE, FALSE, <<>>, user_context_cache,
                                        context_collection)
               /\ lastOp' = [lastOp EXCEPT ![user_id] = OtherOp]
               /\ UNCHANGED <<user_context_cache, flushTask, updLog, installed>>
          ELSE LET e == user_context_cache[user_id] IN
               IF ~e.dirty \/ DOMAIN e.pending_updates = {}
               THEN /\ user_context_cache' = clear_cached_context(user_context_cache, user_id)
                    /\ flushTask' = Detach(flushTask, t, user_id)
                    /\ lastFlush' = Returned([rec EXCEPT !.start = e], TRUE, TRUE, <<>>,
                                             user_context_cache', context_collection)
                    /\ lastOp' = [lastOp EXCEPT ![user_id] = OtherOp]
                    /\ updLog' = [updLog EXCEPT ![user_id] = <<>>]
                    /\ installed' = installed \ {user_id}
               ELSE /\ flushTask' = [flushTask EXCEPT
                                        ![t] = [rec EXCEPT !.pc = "await_collection",
                                                           !.attached = TRUE, !.start = e]]
                    /\ UNCHANGED <<user_context_cache, lastFlush, updLog, installed, lastOp>>
    /\ UNCHANGED <<context_collection, nOps>>

\* an except branch that also drops the entry
FlushFail_Clears(t) ==
    /\ flushTask[t].pc \in Suspended
    /\ user_context_cache' = clear_cached_context(user_context_cache, flushTask[t].id)
    /\ lastFlush' = Returned(flushTask[t], FALSE, TRUE, <<>>, user_context_cache',
                             context_collection)
    /\ flushTask' = [Detach(flushTask, t, flushTask[t].id) EXCEPT ![t] = IdleTask]
    /\ lastOp' = [lastOp EXCEPT ![flushTask[t].id] =
                     IF flushTask[t].disturbed THEN OtherOp
                     ELSE [kind |-> "flush_failed", pending |-> flushTask[t].start.pending_updates]]
    /\ UNCHANGED <<context_collection, updLog, installed, nOps, nFlush>>

\* the except branch (lines 114-116): an awaited store call raised
FlushFail(t) ==
    /\ flushTask[t].pc \in Suspended
    /\ lastFlush' = Returned(flushTask[t], FALSE, TRUE, <<>>, user_context_cache,
                             context_collection)
    /\ flushTask' = [flushTask EXCEPT ![t] = IdleTask]
    /\ lastOp' = [lastOp EXCEPT ![flushTask[t].id] =
                     IF flushTask[t].disturbed THEN OtherOp
                     ELSE [kind |-> "flush_failed", pending |-> flushTask[t].start.pending_updates]]
    /\ UNCHANGED <<user_context_cache, context_collection, updLog, installed, nOps, nFlush>>

\* await get_async_context_collection() returned (line 101); update_one is called
FlushGetCollection(t) ==
    /\ flushTask[t].pc = "await_collection"
    /\ flushTask' = [flushTask EXCEPT ![t] = [@ EXCEPT !.pc = "update_one_called"]]
    /\ UNCHANGED <<user_context_cache, context_collection, lastFlush, updLog, installed,
                   lastOp, nOps, nFlush>>

\* the driver encodes {"$set": cache_entry["pending_updates"]} (lines 102-108);
\* the dict is passed by reference, so it is read when the encoding happens
FlushEncode(t) ==
    /\ flushTask[t].pc = "update_one_called"
    /\ flushTask' = [flushTask EXCEPT ![t] = [@ EXCEPT !.pc = "update_one_sent",
                                                      !.sent = cache_entry(t).pending_updates]]
    /\ UNCHANGED <<user_context_cache, context_collection, lastFlush, updLog, installed,
                   lastOp, nOps, nFlush>>

\* update_one returned; clear_cached_context; return True (lines 104-112)
FlushUpdateOne(t) ==
    /\ flushTask[t].pc = "update_one_sent"
    /\ LET user_id == flushTask[t].id
       IN /\ context_collection' = update_one_set(context_collection, user_id, flushTask[t].sent)
          /\ user_context_cache' = clear_cached_context(user_context_cache, user_id)
          /\ flushTask' = [Detach(flushTask, t, user_id) EXCEPT ![t] = IdleTask]
          /\ lastFlush' = Returned(flushTask[t], TRUE, TRUE,
                                   <<[key |-> user_id, fields |-> flushTask[t].sent]>>,
                                   user_context_cache', context_collection')
          /\ lastOp' = [lastOp EXCEPT ![user_id] = [kind |-> "flush_wrote", pending |-> EmptyDict]]
          /\ updLog' = [updLog EXCEPT ![user_id] = <<>>]
          /\ installed' = installed \ {user_id}
    /\ UNCHANGED <<nOps, nFlush>>

\* --------------------------------------------- catalog caches, initially
Workers == 1..MaxWorkers

None == <<>>

Some(x) == <<x>>

NoStats == [fetches |-> 0, skips |-> 0, late |-> FALSE, assigned |-> 0,
            succeeded |-> FALSE, usable |-> FALSE]

LoadersIdle ==
    /\ properties_lock = [locked |-> FALSE, waiters |-> <<>>]
    /\ loader = [w \in Workers |-> "idle"]
    /\ loadStats = [sheet |-> NoStats, api |-> NoStats]
    /\ nLoads = 0

LoadVarsInit ==
    /\ sheet_properties_cache = None
    /\ properties_data_cache = None
    /\ LoadersIdle

NoNameCall == [done |-> FALSE, arg |-> <<>>, ret |-> None, matched |-> None]

NoNearCall == [n |-> 0, user |-> "", query |-> "", reply |-> "none", user_lat |-> 0,
               rows |-> <<>>, cluster |-> "", top |-> <<>>]

NoBudgetCall == [n |-> 0, user |-> "", reply |-> "none", query |-> <<>>, budget |-> 0,
                 rows |-> <<>>, cluster |-> "", top |-> <<>>]

\* awaiting the Warden API raises an exception whose str() is message
Raised(message) == [kind |-> "raise", success |-> FALSE, data |-> <<>>, message |-> message]

\* the connection to the Warden API fails
Unreachable == Raised(<<"e">>)

NoAvailCall == [n |-> 0, tool |-> "none", reply |-> "none", response |-> <<>>,
                map |-> {}, result |-> <<>>]

NoExploreCall == [n |-> 0, reply |-> "none", exclude |-> <<>>, cluster |-> "", rows |-> <<>>,
                  catalog |-> <<>>, response |-> <<>>, names |-> <<>>]

IdleTool == [pc |-> "idle", runs |-> 0, outcome |-> "none"]

SchedVarsInit ==
    /\ task = [c \in Calls |-> IdleTool]
    /\ running = 0

DbCallers == 1..MaxDbCallers

IdleCaller == [pc |-> "idle", client |-> 0, got |-> 0, calls |-> 0]

DbVarsInit ==
    /\ clients = None
    /\ dbTask = [w \in DbCallers |-> IdleCaller]
    /\ nClients = 0

MoreVarsInit ==
    /\ exploreCall = NoExploreCall
    /\ SchedVarsInit
    /\ DbVarsInit

ToolVarsInit ==
    /\ nameCall = NoNameCall
    /\ nearCall = NoNearCall
    /\ budgetCall = NoBudgetCall
    /\ availCall = NoAvailCall
    /\ bed_availability = Unreachable

\* ------------------------------------------------------- call sessions
IdleCall == [pc |-> "idle", id |-> "u1", user_contexts |-> EmptyDict, cached_ctx |-> EmptyDict,
             upd |-> EmptyDict, ioFailed |-> FALSE, nTools |-> 0]

SessVarsInit ==
    /\ call = [c \in Calls |-> IdleCall]
    /\ flushOwner = [t \in FlushTasks |-> 0]
    /\ lostPending = FALSE
    /\ started = [u \in UserIds |-> 0]

CacheVarsInit ==
    /\ user_context_cache = [u \in {} |-> NewEntry(EmptyDict)]
    /\ context_collection = [u \in {"u1"} |-> DictPut(EmptyDict, <<"context_data", "name">>, "v1")]
    /\ flushTask = [t \in FlushTasks |-> IdleTask]
    /\ lastFlush = NoFlush
    /\ updLog = [u \in UserIds |-> <<>>]
    /\ installed = {}
    /\ lastOp = [u \in UserIds |-> OtherOp]
    /\ nOps = 0
    /\ nFlush = 0

CacheInit == CacheVarsInit /\ SessVarsInit /\ LoadVarsInit /\ ToolVarsInit /\ MoreVarsInit

CacheNext ==
    \/ \E u \in UserIds, c \in ContextChoices : Set(u, c)
    \/ \E u \in UserIds, m \in UpdateMaps : Update(u, m)
    \/ \E u \in UserIds : Clear(u)
    \/ \E t \in FlushTasks, u \in UserIds : FlushCall(t, u)
    \/ \E t \in FlushTasks : FlushGetCollection(t)
    \/ \E t \in FlushTasks : FlushEncode(t)
    \/ \E t \in FlushTasks : FlushUpdateOne(t)
    \/ \E t \in FlushTasks : FlushFail(t)

SpecCache == CacheInit /\ [][CacheNext /\ UNCHANGED <<sessVars, loadVars, toolVars, moreVars>>]_vars

\* ------------------------------------------------------ catalog loaders
\* one Warden property list and one pricing sheet, as the loaders see them
WardenSample == <<[id |-> 1, name |-> <<"a">>]>>

\* a DataFrame of the pricing sheet: its rows (Property Name, Cluster, Lat,
\* Price) and, once some resolver has added it, the distance_km column
\* Price_dtype is "object" (the sheet's strings) until a resolver replaces the
\* column by its float values
DataFrame(rows) == [rows |-> rows, distance_km |-> None, Price_dtype |-> "object"]

SheetSample == DataFrame(<<[name |-> 1, cluster |-> "OMR", lat |-> 1, price |-> 6000]>>)

\* what awaiting get_sheet_as_dataframe_async can produce: an exception, None,
\* an empty DataFrame, or rows
SheetOutcomes == {"raise", "none", "empty", "rows"}

\* what awaiting WardenHelper.get_properties() can produce: an exception (also:
\* WardenHelper is None), a body without "data", "data": null, "data": [], or
\* a property list
WardenOutcomes == {"raise", "no_data_key", "data_null", "data_empty", "list"}

\* response.get("data", [])
response_data(outcome) ==
    CASE outcome = "no_data_key" -> Some(<<>>)
      [] outcome = "data_null" -> None
      [] outcome = "data_empty" -> Some(<<>>)
      [] outcome = "list" -> Some(WardenSample)

\* a fetch is issued: counted, and noted if one had already succeeded
Issue(stats) == [stats EXCEPT !.fetches = @ + 1, !.late = (@ \/ stats.succeeded)]

\* get_properties_data_from_sheet up to its await (lines 130-138); the callers'
\* own test of sheet_properties_cache (lines 428-432, 629-632) is the same test
SheetCall(w) ==
    /\ loader[w] = "idle"
    /\ nLoads < MaxLoads
    /\ nLoads' = nLoads + 1
    /\ IF sheet_properties_cache # None
       THEN /\ loadStats' = [loadStats EXCEPT !.sheet.skips = @ + 1]
            /\ UNCHANGED loader
       ELSE /\ loader' = [loader EXCEPT ![w] = "sheet_fetch"]
            /\ loadStats' = [loadStats EXCEPT !.sheet = Issue(@)]
    /\ UNCHANGED <<sheet_properties_cache, properties_data_cache, properties_lock>>

\* the await returns (lines 138-152)
SheetReturn(w, outcome) ==
    /\ loader[w] = "sheet_fetch"
    /\ loader' = [loader EXCEPT ![w] = "idle"]
    /\ IF outcome = "rows"
       THEN /\ sheet_properties_cache' = Some(SheetSample)
            /\ loadStats' = [loadStats EXCEPT !.sheet.assigned = @ + 1,
                                              !.sheet.succeeded = TRUE, !.sheet.usable = TRUE]
       ELSE UNCHANGED <<sheet_properties_cache, loadStats>>
    /\ UNCHANGED <<properties_data_cache, properties_lock, nLoads>>

\* a loader that never waits for the lock
acquire_now_Unguarded(lock) == TRUE

\* asyncio.Lock.acquire takes the lock at once only if it is free and nobody waits
acquire_now(lock) == ~lock.locked /\ lock.waiters = <<>>

\* the body of `async with _properties_lock` up to its await (lines 175-181):
\* with the cache set the lock is released and the call returns
EnterLocked(w) ==
    IF properties_data_cache # None
    THEN /\ loader' = [loader EXCEPT ![w] = "idle"]
         /\ properties_lock' = [properties_lock EXCEPT !.locked = FALSE]
         /\ loadStats' = [loadStats EXCEPT !.api.skips = @ + 1]
    ELSE /\ loader' = [loader EXCEPT ![w] = "api_fetch"]
         /\ properties_lock' = [properties_lock EXCEPT !.locked = TRUE]
         /\ loadStats' = [loadStats EXCEPT !.api = Issue(@)]

\* load_properties_once is called (line 174)
ApiCall(w) ==
    /\ loader[w] = "idle"
    /\ nLoads < MaxLoads
    /\ nLoads' = nLoads + 1
    /\ IF acquire_now(properties_lock)
       THEN EnterLocked(w)
       ELSE /\ loader' = [loader EXCEPT ![w] = "api_wait_lock"]
            /\ properties_lock' = [properties_lock EXCEPT !.waiters = Append(@, w)]
            /\ UNCHANGED loadStats
    /\ UNCHANGED <<sheet_properties_cache, properties_data_cache>>

\* the released lock wakes its first waiter, which then holds it
ApiLockGranted(w) ==
    /\ loader[w] = "api_wait_lock"
    /\ ~properties_lock.locked
    /\ Head(properties_lock.waiters) = w
    /\ LET lock == [properties_lock EXCEPT !.waiters = Tail(@)]
       IN IF properties_data_cache # None
          THEN /\ loader' = [loader EXCEPT ![w] = "idle"]
               /\ properties_lock' = [lock EXCEPT !.locked = FALSE]
               /\ loadStats' = [loadStats EXCEPT !.api.skips = @ + 1]
          ELSE /\ loader' = [loader EXCEPT ![w] = "api_fetch"]
               /\ properties_lock' = [lock EXCEPT !.locked = TRUE]
               /\ loadStats' = [loadStats EXCEPT !.api = Issue(@)]
    /\ UNCHANGED <<sheet_properties_cache, properties_data_cache, nLoads>>

\* await WardenHelper.get_properties() returns (lines 181-191); len(None)
\* raises after the assignment and lands in the except branch like any failure
ApiReturn(w, outcome) ==
    /\ loader[w] = "api_fetch"
    /\ loader' = [loader EXCEPT ![w] = "idle"]
    /\ properties_lock' = [properties_lock EXCEPT !.locked = FALSE]
    /\ IF outcome = "raise"
       THEN UNCHANGED <<properties_data_cache, loadStats>>
       ELSE /\ properties_data_cache' = response_data(outcome)
            /\ loadStats' = [loadStats EXCEPT
                   !.api.assigned = IF response_data(outcome) # None THEN @ + 1 ELSE @,
                   !.api.succeeded = (@ \/ outcome # "data_null"),
                   !.api.usable = (@ \/ outcome = "list")]
    /\ UNCHANGED <<sheet_properties_cache, nLoads>>

LoadInit == CacheVarsInit /\ SessVarsInit /\ LoadVarsInit /\ ToolVarsInit /\ MoreVarsInit

LoadNext ==
    \/ \E w \in Workers : SheetCall(w)
    \/ \E w \in Workers, o \in SheetOutcomes : SheetReturn(w, o)
    \/ \E w \in Workers : ApiCall(w)
    \/ \E w \in Workers : ApiLockGranted(w)
    \/ \E w \in Workers, o \in WardenOutcomes : ApiReturn(w, o)

SpecLoad == LoadInit /\ [][LoadNext /\ UNCHANGED <<cacheVars, sessVars, toolVars, moreVars>>]_vars

InFlight(state) == {w \in Workers : loader[w] = state}

\* C6: at most one fetch of the spreadsheet is in flight at any time, and no
\* fetch is issued once one has succeeded.
C6_SheetSingleFetch ==
    /\ Cardinality(InFlight("sheet_fetch")) <= 1
    /\ ~loadStats.sheet.late

\* C7: at most one Warden fetch is in flight at any time, no fetch is issued
\* once one has succeeded, and the cached API catalog is assigned at most once.
C7_ApiSingleFetch ==
    /\ Cardinality(InFlight("api_fetch")) <= 1
    /\ ~loadStats.api.late
    /\ loadStats.api.assigned <= 1
    /\ loadStats.api.succeeded => properties_data_cache # None

\* one worker fetched and assigned the catalog while another waited for the
\* lock and then returned without fetching
C7_Witness ==
    /\ loadStats.api.assigned = 1
    /\ loadStats.api.fetches = 1
    /\ loadStats.api.skips >= 2
    /\ \A w \in Workers : loader[w] = "idle"

\* C8: a cache is set only by a fetch that brought usable data, and the load
\* lock is held only while a fetch is in flight, so a failed load leaves the
\* cache unset and the next call fetches again.
C8_FailedLoadLeavesUnset ==
    /\ sheet_properties_cache # None => loadStats.sheet.usable
    /\ properties_data_cache # None => loadStats.api.usable
    /\ properties_lock.locked => InFlight("api_fetch") # {}

\* ------------------------------------------ get_properties_id_from_name
Chars == {"a", "A", "b", " "}

\* strings of at most n characters drawn from cs
RECURSIVE StringsUpTo(_, _)
StringsUpTo(cs, n) ==
    IF n = 0 THEN {<<>>}
    ELSE LET shorter == StringsUpTo(cs, n - 1)
         IN shorter \cup {Append(x, c) : x \in {y \in shorter : Len(y) = n - 1}, c \in cs}

StoredNames == StringsUpTo(Chars \ {" "}, MaxNameLen)

NameInputs == StringsUpTo(Chars, MaxInputLen)

\* the entry at position i carries id i
RECURSIVE WardenLists(_)
WardenLists(n) ==
    IF n = 0 THEN {<<>>}
    ELSE LET shorter == WardenLists(n - 1)
         IN shorter \cup {Append(l, [id |-> n, name |-> x]) :
                             l \in {m \in shorter : Len(m) = n - 1}, x \in StoredNames}

\* str.lower
lower(x) == [i \in 1..Len(x) |-> IF x[i] = "A" THEN "a" ELSE x[i]]

\* str.strip
RECURSIVE lstrip(_)
lstrip(x) == IF x # <<>> /\ Head(x) = " " THEN lstrip(Tail(x)) ELSE x

RECURSIVE rstrip(_)
rstrip(x) == IF x # <<>> /\ x[Len(x)] = " " THEN rstrip(SubSeq(x, 1, Len(x) - 1)) ELSE x

strip(x) == rstrip(lstrip(x))

\* x in y, for strings
contains(y, x) == \E i \in 0..(Len(y) - Len(x)) : SubSeq(y, i + 1, i + Len(x)) = x

\* the first loop (lines 212-217)
RECURSIVE exact_match(_, _)
exact_match(list, search_name) ==
    IF list = <<>> THEN None
    ELSE IF lower(Head(list).name) = search_name THEN Some(Head(list).id)
    ELSE exact_match(Tail(list), search_name)

\* the second loop (lines 220-225)
RECURSIVE partial_match(_, _)
partial_match(list, search_name) ==
    IF list = <<>> THEN None
    ELSE IF contains(lower(Head(list).name), search_name)
            \/ contains(search_name, lower(Head(list).name))
         THEN Some(Head(list).id)
    ELSE partial_match(Tail(list), search_name)

\* one loop that takes the first entry matching either way
RECURSIVE any_match(_, _)
any_match(list, search_name) ==
    IF list = <<>> THEN None
    ELSE IF lower(Head(list).name) = search_name
            \/ contains(lower(Head(list).name), search_name)
            \/ contains(search_name, lower(Head(list).name))
         THEN Some(Head(list).id)
    ELSE any_match(Tail(list), search_name)

get_properties_id_from_name_OnePass(cache, property_name) ==
    IF cache = None \/ cache[1] = <<>> THEN None
    ELSE any_match(cache[1], lower(strip(property_name)))

get_properties_id_from_name(cache, property_name) ==
    IF cache = None \/ cache[1] = <<>> THEN None
    ELSE LET search_name == lower(strip(property_name))
             exact == exact_match(cache[1], search_name)
         IN IF exact # None THEN exact ELSE partial_match(cache[1], search_name)

\* the loop of query_property_information (lines 1393-1408): the first entry
\* whose trimmed, lower-cased name equals the search name, contains it or is
\* contained in it
RECURSIVE first_match(_, _)
first_match(list, search_name) ==
    IF list = <<>> THEN None
    ELSE LET prop_name == lower(strip(Head(list).name))
         IN IF \/ search_name = prop_name
               \/ contains(prop_name, search_name)
               \/ contains(search_name, prop_name)
            THEN Some(Head(list).id)
            ELSE first_match(Tail(list), search_name)

\* the id of the entry query_property_information works on (lines 1389-1422),
\* None when it reports the catalog unavailable or the property not found
matched_property(cache, property_name) ==
    IF cache = None \/ cache[1] = <<>> THEN None
    ELSE first_match(cache[1], lower(strip(property_name)))

\* both tools are given property_name over the loaded list
ResolveName(property_name) ==
    /\ nameCall' = [done |-> TRUE, arg |-> property_name,
                    ret |-> get_properties_id_from_name(properties_data_cache, property_name),
                    matched |-> matched_property(properties_data_cache, property_name)]
    /\ UNCHANGED <<nearCall, budgetCall, availCall, bed_availability, loadVars>>

NameInit ==
    /\ CacheVarsInit /\ SessVarsInit /\ ToolVarsInit /\ MoreVarsInit /\ LoadersIdle
    /\ sheet_properties_cache = None
    /\ properties_data_cache \in {None} \cup {Some(l) : l \in WardenLists(MaxCatalog)}

NameNext == \E x \in NameInputs : ResolveName(x)

SpecName == NameInit /\ [][NameNext /\ UNCHANGED <<cacheVars, sessVars, moreVars>>]_vars

\* the positions of the loaded list whose name equals the trimmed input, and
\* those whose name contains it or is contained in it, case-insensitively
ExactAt(list, input) == {i \in 1..Len(list) : lower(list[i].name) = lower(strip(input))}

PartialAt(list, input) ==
    {i \in 1..Len(list) :
        \/ contains(lower(list[i].name), lower(strip(input)))
        \/ contains(lower(strip(input)), lower(list[i].name))}

Lowest(S) == CHOOSE i \in S : \A j \in S : i <= j

\* C9: the id of the first exact match if there is one, also when an earlier
\* entry matches by substring; otherwise the id of the first substring match;
\* otherwise absent; absent whenever the catalog is not loaded or empty.
C9_ExactThenPartial ==
    nameCall.done =>
        IF properties_data_cache = None \/ properties_data_cache[1] = <<>>
        THEN nameCall.ret = None
        ELSE LET list == properties_data_cache[1]
                 ex == ExactAt(list, nameCall.arg)
                 pa == PartialAt(list, nameCall.arg)
             IN IF ex # {} THEN nameCall.ret = Some(list[Lowest(ex)].id)
                ELSE IF pa # {} THEN nameCall.ret = Some(list[Lowest(pa)].id)
                ELSE nameCall.ret = None

\* an exact match was returned although an earlier entry matches by substring,
\* with an input that needed trimming and case folding
C9_Witness ==
    /\ nameCall.done
    /\ properties_data_cache # None
    /\ LET list == properties_data_cache[1]
           ex == ExactAt(list, nameCall.arg)
           pa == PartialAt(list, nameCall.arg)
       IN /\ ex # {}
          /\ Lowest(pa) < Lowest(ex)
          /\ nameCall.ret = Some(list[Lowest(ex)].id)
          /\ strip(nameCall.arg) # nameCall.arg
          /\ lower(nameCall.arg) # nameCall.arg

\* ------------------------------------------------ find_nearest_property
TopN == 7

Clusters == {"OMR", "ECR"}

\* Lat of row i; every property and every query point lies on one meridian
LatPatterns == {"flat", "up", "down", "mixed"}

LatOf(pattern, i) ==
    CASE pattern = "flat" -> 3
      [] pattern = "up" -> i
      [] pattern = "down" -> 2 * MaxRows - i
      [] pattern = "mixed" -> (3 * i) % 4

\* sheets in which row i is the only row of property i
DistinctSheetsOf(n) ==
    {[i \in 1..n |-> [name |-> i, cluster |-> f[i], lat |-> LatOf(pt, i),
                      price |-> 5000 + 1000 * i]] :
        f \in [1..n -> Clusters], pt \in LatPatterns}

DistinctSheets == UNION {DistinctSheetsOf(n) : n \in 0..MaxRows}

RECURSIVE SheetsUpTo(_, _)
SheetsUpTo(kinds, n) ==
    IF n = 0 THEN {<<>>}
    ELSE LET shorter == SheetsUpTo(kinds, n - 1)
         IN shorter \cup {Append(l, k) : l \in {x \in shorter : Len(x) = n - 1}, k \in kinds}

\* sheets in which several rows may carry one property name
SmallSheets ==
    SheetsUpTo([name : {1, 2}, cluster : Clusters, lat : {1, 3}, price : {6000, 9000}],
               MaxSmallRows)

ScenarioLat == <<9, 4, 3, 7, 1, 5, 2, 6, 8, 3, 10, 6, 2, 4>>

\* 4 properties in cluster OMR and 10 elsewhere
ScenarioSheet ==
    [i \in 1..14 |->
        [name |-> i,
         cluster |-> IF i \in {2, 5, 9, 12} THEN "OMR" ELSE IF i % 2 = 0 THEN "ECR" ELSE "Porur",
         lat |-> ScenarioLat[i], price |-> 5000 + 1000 * i]]


\* what geocode_address_google can return: None, or a point at one of these Lat
GeoLats == {0, 2}

Abs(x) == IF x < 0 THEN 0 - x ELSE x

\* haversine_distance between two points of one meridian, in units of the
\* arc of one Lat step; on a meridian the great-circle distance is
\* proportional to the difference of the latitudes
haversine_distance(lat1, lat2) == Abs(lat2 - lat1)

\* properties_df.apply(lambda row: haversine_distance(...), axis=1)
distance_column(rows, user_lat) ==
    [i \in 1..Len(rows) |-> haversine_distance(user_lat, rows[i].lat)]

\* the rows as the resolver sees them once the column is in place
with_distance(rows, column) ==
    [i \in 1..Len(rows) |->
        [name |-> rows[i].name, cluster |-> rows[i].cluster, lat |-> rows[i].lat,
         price |-> rows[i].price, distance_km |-> column[i]]]

\* Series.idxmin: the first position holding the minimum
idxmin(column) ==
    CHOOSE i \in 1..Len(column) :
        /\ \A j \in 1..Len(column) : column[i] <= column[j]
        /\ \A j \in 1..(i - 1) : column[j] # column[i]

Range(s) == {s[i] : i \in 1..Len(s)}

\* Series.unique: the values in order of first appearance
RECURSIVE unique(_)
unique(s) ==
    IF s = <<>> THEN <<>>
    ELSE LET u == unique(SubSeq(s, 1, Len(s) - 1))
         IN IF s[Len(s)] \in Range(u) THEN u ELSE Append(u, s[Len(s)])

SeqMin(s) == CHOOSE x \in Range(s) : \A y \in Range(s) : x <= y

SeqMax(s) == CHOOSE x \in Range(s) : \A y \in Range(s) : x >= y

names_of(df) == [i \in 1..Len(df) |-> df[i].name]

prices_of(df) == [i \in 1..Len(df) |-> df[i].price]

rows_named(df, prop_name) == SelectSeq(df, LAMBDA r : r.name = prop_name)

rows_in(df, cluster) == SelectSeq(df, LAMBDA r : r.cluster = cluster)

rows_outside(df, cluster) == SelectSeq(df, LAMBDA r : r.cluster # cluster)

\* extract_unique_properties (lines 466-497)
extract_unique_properties(df) ==
    LET names == unique(names_of(df))
    IN [k \in 1..Len(names) |->
           LET prop_rows == rows_named(df, names[k])
               first_row == prop_rows[1]
           IN [property_name |-> names[k], distance_km |-> first_row.distance_km,
               cluster |-> first_row.cluster,
               min_price |-> SeqMin(prices_of(prop_rows)),
               max_price |-> SeqMax(prices_of(prop_rows))]]

\* an insertion that puts x before the entries at the same distance
RECURSIVE insort_BeforeEqual(_, _)
insort_BeforeEqual(sorted, x) ==
    IF sorted = <<>> THEN <<x>>
    ELSE IF x.distance_km <= Head(sorted).distance_km THEN <<x>> \o sorted
    ELSE <<Head(sorted)>> \o insort_BeforeEqual(Tail(sorted), x)

\* list.sort is stable: x goes after the entries that are no farther than it
RECURSIVE insort(_, _)
insort(sorted, x) ==
    IF sorted = <<>> THEN <<x>>
    ELSE IF x.distance_km < Head(sorted).distance_km THEN <<x>> \o sorted
    ELSE <<Head(sorted)>> \o insort(Tail(sorted), x)

\* props.sort(key=lambda x: x['distance_km'])
RECURSIVE sort_by_distance(_)
sort_by_distance(props) ==
    IF props = <<>> THEN <<>>
    ELSE insort(sort_by_distance(SubSeq(props, 1, Len(props) - 1)), props[Len(props)])

\* l[:n]
take(l, n) == SubSeq(l, 1, IF n < Len(l) THEN n ELSE Len(l))

\* a list made of the nearest cluster alone
top_7_properties_ClusterOnly(df, cluster) ==
    take(sort_by_distance(extract_unique_properties(rows_in(df, cluster))), TopN)

\* lines 499-525
top_7_properties(df, cluster) ==
    LET cluster_unique == sort_by_distance(extract_unique_properties(rows_in(df, cluster)))
    IN IF Len(cluster_unique) < TopN
       THEN LET other_unique ==
                    sort_by_distance(extract_unique_properties(rows_outside(df, cluster)))
                needed == TopN - Len(cluster_unique)
            IN cluster_unique \o take(other_unique, needed)
       ELSE take(cluster_unique, TopN)

\* ------------------------------------------- truliv_agent (src/agent/main.py)
\* user_doc.get("context_data", {}): the context_data sub-document
ContextOf(doc) ==
    [k \in {Tail(q) : q \in {r \in DOMAIN doc : Len(r) = 2 /\ r[1] = "context_data"}} |->
        doc[<<"context_data">> \o k]]

\* {"phoneNumber": phone_number or "", "name": "Voice User"}
DefaultContext(user_id) ==
    [k \in {<<"phoneNumber">>, <<"name">>} |->
        IF k = <<"phoneNumber">> THEN user_id ELSE "Voice User"]

\* {"$set": {"context_data": ctx}} as full paths
UnderContextData(ctx) == [q \in {<<"context_data">> \o k : k \in DOMAIN ctx} |-> ctx[Tail(q)]]

ToolPaths == {<<"context_data", "name">>, <<"context_data", "botProfession">>}

\* the non-empty mappings the profile tools pass to update_cached_context
ToolUpdates == {<<<<q, v>>>> : q \in ToolPaths, v \in Vals}

\* pending updates of user_id that the durable store does not hold
Unwritten(user_id) ==
    IF user_id \notin DOMAIN user_context_cache THEN {}
    ELSE {q \in DOMAIN user_context_cache[user_id].pending_updates :
             ~(/\ user_id \in DOMAIN context_collection
               /\ q \in DOMAIN context_collection[user_id]
               /\ context_collection[user_id][q] =
                      user_context_cache[user_id].pending_updates[q])}

\* step 5 up to the cache install (lines 141-164): find_one, and the upsert of a
\* default document for a new caller; ok = FALSE is the except branch
CallLoad(c, user_id, ok) ==
    /\ call[c].pc = "idle"
    /\ \A d \in Calls : d < c => call[d].pc # "idle"
    /\ started["u1"] + started["u2"] < MaxCalls
    /\ started' = [started EXCEPT ![user_id] = @ + 1]
    /\ IF ~ok
       THEN /\ call' = [call EXCEPT ![c] = [@ EXCEPT !.pc = "loaded", !.id = user_id,
                                               !.user_contexts = DefaultContext(user_id)]]
            /\ UNCHANGED context_collection
       ELSE IF user_id \in DOMAIN context_collection
       THEN /\ call' = [call EXCEPT ![c] = [@ EXCEPT !.pc = "loaded", !.id = user_id,
                           !.user_contexts = ContextOf(context_collection[user_id])]]
            /\ UNCHANGED context_collection
       ELSE /\ call' = [call EXCEPT ![c] = [@ EXCEPT !.pc = "loaded", !.id = user_id,
                                               !.user_contexts = DefaultContext(user_id)]]
            /\ context_collection' = update_one_set(context_collection, user_id,
                                         UnderContextData(DefaultContext(user_id)))
    /\ UNCHANGED <<user_context_cache, flushTask, lastFlush, updLog, installed, lastOp,
                   nOps, nFlush, flushOwner, lostPending>>

\* the job of a finished call ends
CallEnd(c) ==
    /\ call[c].pc = "done"
    /\ call' = [call EXCEPT ![c] = IdleCall]
    /\ UNCHANGED <<cacheVars, flushOwner, lostPending, started>>

\* set_cached_context(voice_user_id, user_contexts) (line 166)
CallInstall(c) ==
    /\ call[c].pc = "loaded"
    /\ DoSet(call[c].id, call[c].user_contexts)
    /\ call' = [call EXCEPT ![c] = [@ EXCEPT !.pc = "active"]]
    /\ UNCHANGED <<nOps, flushOwner, lostPending, started>>

\* a tool of the running session records profile fields (update_user_profile,
\* schedule_site_visit, query_property_information)
ToolUpdate(c, updates) ==
    /\ call[c].pc = "active"
    /\ call[c].nTools < MaxTools
    /\ DoUpdate(call[c].id, updates)
    /\ call' = [call EXCEPT ![c] = [@ EXCEPT !.nTools = @ + 1,
                   !.upd = DictPut(@, updates[1][1], updates[1][2])]]
    /\ UNCHANGED <<nOps, flushOwner, lostPending, started>>

\* on_session_close (lines 273-276): create_task(_cleanup()) only schedules the
\* coroutine; clear_cached_context runs before the handler returns
on_session_close(c) ==
    /\ call[c].pc = "active"
    /\ lostPending' = (lostPending \/ Unwritten(call[c].id) # {})
    /\ DoClear(call[c].id)
    /\ call' = [call EXCEPT ![c] = [@ EXCEPT !.pc = "cleanup_scheduled"]]
    /\ UNCHANGED <<nOps, flushOwner, started>>

\* _cleanup starts (line 225): cached_ctx = get_cached_context(...) or user_contexts
CleanupBegin(c) ==
    /\ call[c].pc = "cleanup_scheduled"
    /\ LET got == get_cached_context(user_context_cache, call[c].id)
       IN call' = [call EXCEPT ![c] = [@ EXCEPT !.pc = "cleanup_summary",
                      !.cached_ctx = IF got[1] /\ DOMAIN got[2] # {} THEN got[2]
                                     ELSE call[c].user_contexts]]
    /\ UNCHANGED <<cacheVars, flushOwner, lostPending, started>>

\* the call summary (lines 227-261): none, saved with update_one (no upsert),
\* or the store call raised and was logged
CleanupSummary(c, outcome) ==
    /\ call[c].pc = "cleanup_summary"
    /\ call' = [call EXCEPT ![c] = [@ EXCEPT !.pc = "cleanup_flush",
                   !.ioFailed = (outcome = "failed")]]
    /\ IF outcome = "saved" /\ call[c].id \in DOMAIN context_collection
       THEN context_collection' = update_one_set(context_collection, call[c].id,
                 DictPut(EmptyDict, <<"context_data", "lastCallSummary">>, "summary"))
       ELSE UNCHANGED context_collection
    /\ UNCHANGED <<user_context_cache, flushTask, lastFlush, updLog, installed, lastOp,
                   nOps, nFlush, flushOwner, lostPending, started>>

\* await flush_cached_context(voice_user_id) (line 263), up to its first await
CleanupFlush(c) ==
    /\ call[c].pc = "cleanup_flush"
    /\ \E t \in FlushTasks :
          /\ FlushCall(t, call[c].id)
          /\ IF flushTask'[t].pc = "idle"
             THEN /\ call' = [call EXCEPT ![c] = [@ EXCEPT !.pc = "done"]]
                  /\ UNCHANGED flushOwner
             ELSE /\ call' = [call EXCEPT ![c] = [@ EXCEPT !.pc = "flushing"]]
                  /\ flushOwner' = [flushOwner EXCEPT ![t] = c]
    /\ UNCHANGED <<lostPending, started>>

\* the flush awaited by a cleanup makes a step that does not return
CleanupFlushStep(t) ==
    /\ (FlushGetCollection(t) \/ FlushEncode(t))
    /\ UNCHANGED sessVars

\* the flush returns; sync_user_to_leadsquared follows and _cleanup ends
CleanupFlushReturn(t, ok) ==
    /\ IF ok THEN FlushUpdateOne(t) ELSE FlushFail(t)
    /\ call' = [call EXCEPT ![flushOwner[t]] =
                   [@ EXCEPT !.pc = "done", !.ioFailed = (@ \/ ~ok)]]
    /\ flushOwner' = [flushOwner EXCEPT ![t] = 0]
    /\ UNCHANGED <<lostPending, started>>

SessInit == CacheVarsInit /\ SessVarsInit /\ LoadVarsInit /\ ToolVarsInit /\ MoreVarsInit

SessNext ==
    \/ \E c \in Calls, u \in UserIds, ok \in BOOLEAN : CallLoad(c, u, ok)
    \/ \E c \in Calls : CallInstall(c)
    \/ \E c \in Calls, m \in ToolUpdates : ToolUpdate(c, m)
    \/ \E c \in Calls : on_session_close(c)
    \/ \E c \in Calls : CleanupBegin(c)
    \/ \E c \in Calls, o \in {"none", "saved", "failed"} : CleanupSummary(c, o)
    \/ \E c \in Calls : CleanupFlush(c)
    \/ \E t \in FlushTasks : CleanupFlushStep(t)
    \/ \E t \in FlushTasks, ok \in BOOLEAN : CleanupFlushReturn(t, ok)
    \/ \E c \in Calls : CallEnd(c)

SpecSession == SessInit /\ [][SessNext /\ UNCHANGED <<loadVars, toolVars, moreVars>>]_vars

\* the call is over, its cleanup met no store failure, and it is the only
\* call that used its identifier
CallDoneAlone(c) ==
    /\ call[c].pc = "done"
    /\ ~call[c].ioFailed
    /\ started[call[c].id] = 1

\* C1: once the close handler and the cleanup task have run with the store
\* reachable, the durable store holds the last value of every path updated
\* during the call, and no close removed an entry that still held unwritten
\* updates.
C1_FlushedBeforeCleared ==
    /\ \A c \in Calls : CallDoneAlone(c) =>
          \A q \in DOMAIN call[c].upd :
              /\ call[c].id \in DOMAIN context_collection
              /\ q \in DOMAIN context_collection[call[c].id]
              /\ context_collection[call[c].id][q] = call[c].upd[q]
    /\ ~lostPending

\* ------------------------------------------------ claims on the cache API
PathsIn(log) == {log[i][1] : i \in 1..Len(log)}

LastValue(log, p) ==
    log[CHOOSE i \in 1..Len(log) :
            log[i][1] = p /\ \A j \in (i + 1)..Len(log) : log[j][1] # p][2]

\* the upsert wrote exactly `fields` into the document of user_id and nothing else
MergedOnly(before, stored, user_id, fields) ==
    /\ DOMAIN stored = (DOMAIN before) \cup {user_id}
    /\ \A u \in (DOMAIN before) \ {user_id} : stored[u] = before[u]
    /\ DOMAIN stored[user_id] =
          (IF user_id \in DOMAIN before THEN DOMAIN before[user_id] ELSE {}) \cup DOMAIN fields
    /\ \A p \in DOMAIN stored[user_id] :
          stored[user_id][p] = IF p \in DOMAIN fields THEN fields[p] ELSE before[user_id][p]

LatestPerPath(log) == [p \in PathsIn(log) |-> LastValue(log, p)]

\* a flush of an entry installed by set, with nothing else touching the id
\* while it ran, and with the store answering
SetUpdatesFlush ==
    lastFlush.done /\ lastFlush.viaSet /\ ~lastFlush.disturbed /\ lastFlush.ret

\* C2 as stated: set, any updates, flush with the store reachable: exactly one
\* upsert keyed by id, writing exactly the updated paths with their last
\* values, every other durable field unchanged.
C2_ExactlyOneUpsert ==
    SetUpdatesFlush =>
        /\ Len(lastFlush.wrote) = 1
        /\ lastFlush.wrote[1].key = lastFlush.id
        /\ lastFlush.wrote[1].fields = LatestPerPath(lastFlush.log)
        /\ MergedOnly(lastFlush.before, lastFlush.stored, lastFlush.id, LatestPerPath(lastFlush.log))

\* C2 amended: when at least one path was updated since the set, flush issues
\* exactly one upsert keyed by id with the last value of each updated path and
\* leaves every other durable field alone; when no path was updated it issues
\* no upsert and the durable store is unchanged.
C2_LatestPerPathWritten ==
    SetUpdatesFlush =>
        IF PathsIn(lastFlush.log) # {}
        THEN /\ Len(lastFlush.wrote) = 1
             /\ lastFlush.wrote[1].key = lastFlush.id
             /\ lastFlush.wrote[1].fields = LatestPerPath(lastFlush.log)
             /\ MergedOnly(lastFlush.before, lastFlush.stored, lastFlush.id,
                           LatestPerPath(lastFlush.log))
        ELSE lastFlush.wrote = <<>> /\ lastFlush.stored = lastFlush.before

\* a path was updated twice with different values, then flushed
C2_Witness ==
    /\ SetUpdatesFlush
    /\ lastFlush.wrote # <<>>
    /\ \E i, j \in 1..Len(lastFlush.log) :
          i < j /\ lastFlush.log[i][1] = lastFlush.log[j][1]
                /\ lastFlush.log[i][2] # lastFlush.log[j][2]
    /\ lastFlush.id \in DOMAIN lastFlush.before
    /\ DOMAIN lastFlush.before[lastFlush.id] \ PathsIn(lastFlush.log) # {}

\* the flush that just returned was called right after a flush of the same
\* id that wrote and returned success
SecondFlush == lastFlush.done /\ lastFlush.after.kind = "flush_wrote"

\* C3 as stated: the second flush writes nothing and returns success.
C3_SecondFlushSucceeds ==
    SecondFlush => lastFlush.ret = TRUE /\ lastFlush.wrote = <<>>

\* C3 amended: a second flush right after a flush that wrote and returned
\* success performs no durable write, creates no entry and returns failure,
\* because the first flush removed the entry.
C3_SecondFlushNoWrite ==
    SecondFlush =>
        /\ lastFlush.ret = FALSE
        /\ lastFlush.wrote = <<>>
        /\ lastFlush.stored = lastFlush.before
        /\ ~lastFlush.left[1]

C3_Witness == SecondFlush /\ ~lastFlush.found

\* C4: every cache entry has dirty = TRUE exactly when its pending-updates
\* mapping is non-empty.
C4_DirtyIffPending ==
    \A u \in DOMAIN user_context_cache :
        user_context_cache[u].dirty <=> (DOMAIN user_context_cache[u].pending_updates # {})

\* C5: a flush that found pending updates and whose store call failed returns
\* failure, writes nothing and leaves the entry as it found it; the next flush
\* of that id, with the store answering, writes exactly those pending updates
\* and removes the entry.
C5_FailedFlushKeepsEntry ==
    /\ (lastFlush.done /\ lastFlush.found /\ ~lastFlush.ret /\ ~lastFlush.disturbed) =>
          /\ lastFlush.wrote = <<>>
          /\ lastFlush.stored = lastFlush.before
          /\ lastFlush.left = <<TRUE, lastFlush.start>>
    /\ (lastFlush.done /\ lastFlush.after.kind = "flush_failed" /\ ~lastFlush.disturbed) =>
          /\ lastFlush.found
          /\ lastFlush.start.pending_updates = lastFlush.after.pending
          /\ lastFlush.ret =>
                /\ lastFlush.wrote = <<[key |-> lastFlush.id, fields |-> lastFlush.after.pending]>>
                /\ ~lastFlush.left[1]

\* a retry after a failed flush wrote the pending updates
C5_Witness ==
    /\ lastFlush.done /\ lastFlush.after.kind = "flush_failed" /\ ~lastFlush.disturbed
    /\ lastFlush.ret /\ lastFlush.wrote # <<>>

\* the last segment of a dotted path, as a key
Leaf(p) == <<p[Len(p)]>>

\* the value the mapping m gives last to a path whose leaf is that of path
LeafValue(m, path) ==
    m[CHOOSE i \in 1..Len(m) :
          Leaf(m[i][1]) = Leaf(path)
          /\ \A j \in (i + 1)..Len(m) : Leaf(m[j][1]) # Leaf(path)][2]

\* the value the mapping m gives to path
PathValue(m, path) == m[CHOOSE i \in 1..Len(m) : m[i][1] = path][2]

\* C19: update(id, fieldUpdates) leaves an entry for id in which, for every
\* (path, value) of fieldUpdates, the context holds value under the leaf
\* segment of path and pending-updates holds value under path.
C19_StoredUnderLeafSegment ==
    [][\A u \in UserIds, m \in UpdateMaps :
          Update(u, m) =>
              /\ u \in DOMAIN user_context_cache'
              /\ \A i \in 1..Len(m) :
                    LET path == m[i][1]
                        entry == user_context_cache'[u]
                    IN /\ Leaf(path) \in DOMAIN entry.context_data
                       /\ entry.context_data[Leaf(path)] = LeafValue(m, path)
                       /\ path \in DOMAIN entry.pending_updates
                       /\ entry.pending_updates[path] = PathValue(m, path)]_vars

\* C20: an identifier without a cache entry reads as absent, and a flush of
\* it returns failure, writes nothing to the durable store and leaves the
\* cache without an entry for it.
C20_AbsentReadsAbsentFlushFails ==
    /\ [](\A u \in UserIds \ DOMAIN user_context_cache :
              ~get_cached_context(user_context_cache, u)[1])
    /\ [][\A t \in FlushTasks, u \in UserIds :
              (nFlush' # nFlush /\ u \notin DOMAIN user_context_cache /\ FlushCall(t, u)) =>
                  /\ lastFlush'.done /\ lastFlush'.id = u
                  /\ lastFlush'.ret = FALSE
                  /\ lastFlush'.wrote = <<>>
                  /\ context_collection' = context_collection
                  /\ user_context_cache' = user_context_cache]_vars

\* a flush of an identifier that has neither a cache entry nor a durable
\* document returned
C20_Witness ==
    /\ lastFlush.done /\ ~lastFlush.found /\ ~lastFlush.viaSet
    /\ lastFlush.id \notin DOMAIN user_context_cache
    /\ lastFlush.id \notin DOMAIN context_collection
    /\ \A u \in UserIds \ DOMAIN user_context_cache :
           ~get_cached_context(user_context_cache, u)[1]

\* C21: the durable store changes only when a flush that sent pending updates
\* completes its upsert; set, update and clear leave it alone; a flush that
\* finds an entry with nothing pending removes the entry and returns success
\* without reaching the store; clear removes the entry and persists nothing.
C21_StoreChangesOnlyByFlush ==
    [][/\ context_collection' # context_collection =>
              \E t \in FlushTasks :
                  /\ FlushUpdateOne(t)
                  /\ DOMAIN flushTask[t].sent # {}
                  /\ DOMAIN flushTask[t].start.pending_updates # {}
       \* a set, an update or a clear: the steps counted by nOps
       /\ nOps' # nOps => context_collection' = context_collection
       /\ \A u \in UserIds :
              /\ (nOps' # nOps /\ Clear(u)) =>
                     /\ u \notin DOMAIN user_context_cache'
                     /\ \A t \in FlushTasks : flushTask'[t].pc = flushTask[t].pc
              /\ \A t \in FlushTasks :
                     (/\ nFlush' # nFlush
                      /\ u \in DOMAIN user_context_cache
                      /\ DOMAIN user_context_cache[u].pending_updates = {}
                      /\ FlushCall(t, u)) =>
                         /\ u \notin DOMAIN user_context_cache'
                         /\ lastFlush'.done /\ lastFlush'.id = u /\ lastFlush'.ret
                         /\ lastFlush'.wrote = <<>>
                         /\ flushTask'[t].pc = "idle"
                         /\ context_collection' = context_collection]_vars

\* a flush found an entry with nothing pending: it removed the entry and
\* returned success, and nothing was written
C21_Witness ==
    /\ lastFlush.done /\ lastFlush.found /\ lastFlush.ret
    /\ DOMAIN lastFlush.start.pending_updates = {}
    /\ lastFlush.wrote = <<>>
    /\ ~lastFlush.left[1]
    /\ lastFlush.stored = lastFlush.before


\* ------------------------------------------- the tools' except branches
\* the characters of an exception's text: either brace, or any other character
TextChars == {"{", "}", "e"}

ErrorTexts == StringsUpTo(TextChars, MaxTextLen)

\* str.format(**kwargs) with no positional argument and no keyword that the
\* text names: "{{" and "}}" are literal braces, any other brace opens a
\* replacement field that cannot be filled or is unbalanced, and format raises
RECURSIVE format_raises(_)
format_raises(message) ==
    IF message = <<>> THEN FALSE
    ELSE IF Head(message) \in {"{", "}"}
    THEN IF Len(message) >= 2 /\ message[2] = Head(message)
         THEN format_raises(Tail(Tail(message)))
         ELSE TRUE
    ELSE format_raises(Tail(message))

\* logger.error(message, **kwargs) of loguru: the message is passed through
\* str.format exactly when arguments come with it
logger_error_raises(message, kwargs) == kwargs # {} /\ format_raises(message)

\* f"[TOOL-ERROR] ... | Error: {str(e)}"
tool_error_message(e) == <<"e">> \o e

\* except Exception of find_nearest_property (lines 551-554): what the caller
\* gets, the apology or the exception the log call raised
find_nearest_property_except(e) ==
    IF logger_error_raises(tool_error_message(e), {"exc_info"}) THEN "raised" ELSE "error"

\* except Exception of properties_according_to_budget (lines 710-713)
properties_according_to_budget_except(e) ==
    IF logger_error_raises(tool_error_message(e), {}) THEN "raised" ELSE "error"

\* except Exception of get_all_room_availability (lines 2038-2048)
get_all_room_availability_except(e) ==
    IF logger_error_raises(tool_error_message(e), {"exc_info"}) THEN "raised" ELSE "error"

\* WardenAPI._get on a status other than 200 (warden_corn_api.py lines 28-30):
\* Exception(f"API failed [{response.status}]: {text}")
api_failed(text) == Raised(<<"e">> \o text)


\* ------------------------------------- find_nearest_property (lines 362-554)
LocationQueries == {"OMR", "T Nagar"}

CompleteContext ==
    [k \in {<<"botProfession">>, <<"botMoveInPreference">>, <<"botRoomSharingPreference">>} |->
        CASE k = <<"botProfession">> -> "working"
          [] k = <<"botMoveInPreference">> -> "this month"
          [] k = <<"botRoomSharingPreference">> -> "private"]

NearContexts ==
    {CompleteContext,
     DictPut(CompleteContext, <<"botRoomSharingPreference">>, ""),
     DictPut(DictDel(CompleteContext, <<"botMoveInPreference">>),
             <<"botRoomSharingPreference">>, "")}

\* a test that takes an empty value for a present one
missing_AbsentOnly(context_data, key) == key \notin DOMAIN context_data

\* `not context_data.get(key)`
missing(context_data, key) == key \notin DOMAIN context_data \/ context_data[key] = ""

\* get_properties_data_from_sheet as seen by its caller: the DataFrame it
\* returns, or None (lines 126-152)
sheet_returned(outcome) ==
    IF sheet_properties_cache # None THEN sheet_properties_cache
    ELSE IF outcome = "rows" THEN Some(SheetSample) ELSE None

Replied(user_id, location_query, reply) ==
    /\ nearCall' = [NoNearCall EXCEPT !.n = nearCall.n + 1, !.user = user_id,
                                      !.query = location_query, !.reply = reply]
    /\ UNCHANGED <<cacheVars, sessVars, nameCall, budgetCall, availCall, bed_availability>>

\* lines 428-436: the catalog from the cache or from a first load
FetchedSheet(outcome) ==
    IF sheet_properties_cache # None
    THEN UNCHANGED loadStats
    ELSE loadStats' =
            IF outcome = "rows"
            THEN [loadStats EXCEPT !.sheet = [Issue(@) EXCEPT !.assigned = @ + 1,
                                                 !.succeeded = TRUE, !.usable = TRUE]]
            ELSE [loadStats EXCEPT !.sheet = Issue(@)]

\* lines 438-549: geocoding, the distance column, the list, the cache update
Resolve(user_id, location_query, properties_df, outcome, location) ==
    IF location = None
    THEN /\ Replied(user_id, location_query, "location_not_found")
         /\ FetchedSheet(outcome)
         /\ sheet_properties_cache' = properties_df
         /\ UNCHANGED <<properties_data_cache, properties_lock, loader, nLoads>>
    ELSE LET user_lat == location[1]
             rows == properties_df[1].rows
             column == distance_column(rows, user_lat)
             df == with_distance(rows, column)
             cluster == df[idxmin(column)].cluster
         IN /\ nearCall' = [n |-> nearCall.n + 1, user |-> user_id,
                            query |-> location_query, reply |-> "ok",
                            user_lat |-> user_lat, rows |-> rows, cluster |-> cluster,
                            top |-> top_7_properties(df, cluster)]
            /\ sheet_properties_cache' =
                   Some([properties_df[1] EXCEPT !.distance_km = Some(column)])
            /\ FetchedSheet(outcome)
            /\ DoUpdate(user_id,
                        <<<<<<"context_data", "botLocationPreference">>, location_query>>,
                          <<<<"context_data", "cluster">>, cluster>>>>)
            /\ UNCHANGED <<nOps, sessVars, nameCall, budgetCall, availCall, bed_availability,
                           properties_data_cache, properties_lock, loader, nLoads>>

\* lines 428-436: the catalog from the cache, or from a first load and what
\* that load produced
LoadCatalog(user_id, location_query) ==
    \E outcome \in IF sheet_properties_cache # None THEN {"rows"} ELSE SheetOutcomes :
        LET properties_df == sheet_returned(outcome)
        IN IF properties_df = None \/ properties_df[1].rows = <<>>
           THEN /\ Replied(user_id, location_query, "catalog_unavailable")
                /\ FetchedSheet(outcome)
                /\ UNCHANGED <<sheet_properties_cache, properties_data_cache,
                               properties_lock, loader, nLoads>>
           ELSE \E location \in {None} \cup {Some(lat) : lat \in GeoLats} :
                    Resolve(user_id, location_query, properties_df, outcome, location)

\* lines 410-420
CheckPrerequisites(user_id, location_query, context_data) ==
    IF missing(context_data, <<"botProfession">>)
    THEN Replied(user_id, location_query, "ask_profession") /\ UNCHANGED loadVars
    ELSE IF missing(context_data, <<"botMoveInPreference">>)
    THEN Replied(user_id, location_query, "ask_timeline") /\ UNCHANGED loadVars
    ELSE IF missing(context_data, <<"botRoomSharingPreference">>)
    THEN Replied(user_id, location_query, "ask_room") /\ UNCHANGED loadVars
    ELSE LoadCatalog(user_id, location_query)

\* lines 394-405: the context from the cache, or from the durable store when
\* the cache has none
FindNearest(user_id, location_query) ==
    /\ nearCall.n < MaxNearCalls
    /\ LET got == get_cached_context(user_context_cache, user_id)
       IN IF got[1] /\ DOMAIN got[2] # {}
          THEN CheckPrerequisites(user_id, location_query, got[2])
          ELSE \E db \in {"ok", "raise"} :
                   IF db = "raise"
                   THEN \E e \in ErrorTexts :
                            /\ Replied(user_id, location_query, find_nearest_property_except(e))
                            /\ UNCHANGED loadVars
                   ELSE IF user_id \notin DOMAIN context_collection
                   THEN Replied(user_id, location_query, "no_user_doc") /\ UNCHANGED loadVars
                   ELSE CheckPrerequisites(user_id, location_query,
                                           ContextOf(context_collection[user_id]))

NearInit ==
    /\ \E ctx \in NearContexts :
           user_context_cache = [u \in {"u1"} |-> NewEntry(ctx)]
    /\ context_collection = [u \in {"u1"} |-> DictPut(EmptyDict, <<"context_data", "name">>, "v1")]
    /\ flushTask = [t \in FlushTasks |-> IdleTask]
    /\ lastFlush = NoFlush
    /\ updLog = [u \in UserIds |-> <<>>]
    /\ installed = {"u1"}
    /\ lastOp = [u \in UserIds |-> OtherOp]
    /\ nOps = 0
    /\ nFlush = 0
    /\ SessVarsInit /\ ToolVarsInit /\ MoreVarsInit /\ LoadersIdle
    /\ properties_data_cache = None
    /\ sheet_properties_cache \in
           {None} \cup {Some(DataFrame(rows)) :
                           rows \in DistinctSheets \cup SmallSheets \cup {ScenarioSheet}}

NearNext ==
    \E user_id \in UserIds, location_query \in LocationQueries :
        FindNearest(user_id, location_query)

SpecNear == NearInit /\ [][NearNext /\ UNCHANGED moreVars]_vars


\* the catalog rows of the last resolution, by position: distance to the query
\* point, the rows of the nearest property's cluster and the others
RowDist(i) == Abs(nearCall.rows[i].lat - nearCall.user_lat)

NearestRow ==
    CHOOSE i \in 1..Len(nearCall.rows) :
        /\ \A j \in 1..Len(nearCall.rows) : RowDist(i) <= RowDist(j)
        /\ \A j \in 1..(i - 1) : RowDist(j) > RowDist(i)

NearestCluster == nearCall.rows[NearestRow].cluster

InCluster == {i \in 1..Len(nearCall.rows) : nearCall.rows[i].cluster = NearestCluster}

OutOfCluster == (1..Len(nearCall.rows)) \ InCluster

NamesAt(rowset) == {nearCall.rows[i].name : i \in rowset}

\* the first row of a property within a group of rows
FirstRowOf(rowset, prop) == Lowest({i \in rowset : nearCall.rows[i].name = prop})

\* property p comes before property q of the same group: nearer, or equally
\* near and earlier in the catalog
Before(rowset, p, q) ==
    \/ RowDist(FirstRowOf(rowset, p)) < RowDist(FirstRowOf(rowset, q))
    \/ /\ RowDist(FirstRowOf(rowset, p)) = RowDist(FirstRowOf(rowset, q))
       /\ FirstRowOf(rowset, p) < FirstRowOf(rowset, q)

ClusterPart == {k \in 1..Len(nearCall.top) : nearCall.top[k].cluster = NearestCluster}

FillPart == (1..Len(nearCall.top)) \ ClusterPart

AtMost(a, b) == IF a < b THEN a ELSE b

\* the entries at positions part are distinct properties of the rows rowset,
\* in Before order, and no property left out comes before one taken
NearestOf(part, rowset, count) ==
    /\ Cardinality(part) = count
    /\ \A k \in part :
           /\ nearCall.top[k].property_name \in NamesAt(rowset)
           /\ nearCall.top[k].distance_km =
                  RowDist(FirstRowOf(rowset, nearCall.top[k].property_name))
    /\ \A k \in part, l \in part :
           k < l => Before(rowset, nearCall.top[k].property_name, nearCall.top[l].property_name)
    /\ \A q \in NamesAt(rowset) \ {nearCall.top[k].property_name : k \in part} :
           \A k \in part : Before(rowset, nearCall.top[k].property_name, q)

\* C10: cluster members precede fill-ins; each part is in ascending distance
\* with ties in catalog order; fill-ins appear only when the cluster has fewer
\* than 7 unique properties and are the (7 - cluster size) nearest of the other
\* clusters; 4 in the cluster and 10 elsewhere give those 4 and the 3 nearest
\* others.
C10_ClusterFirstThenNearest ==
    nearCall.reply = "ok" =>
        LET size == Cardinality(NamesAt(InCluster))
            others == Cardinality(NamesAt(OutOfCluster))
        IN /\ \A k \in ClusterPart, l \in FillPart : k < l
           /\ NearestOf(ClusterPart, InCluster, AtMost(size, TopN))
           /\ NearestOf(FillPart, OutOfCluster,
                        IF size < TopN THEN AtMost(TopN - size, others) ELSE 0)
           /\ (size = 4 /\ others = 10) =>
                  /\ Len(nearCall.top) = 7
                  /\ ClusterPart = 1..4
           /\ (nearCall.rows = ScenarioSheet /\ nearCall.user_lat = 0) =>
                  [k \in 1..7 |-> nearCall.top[k].property_name] = <<5, 2, 12, 9, 7, 13, 3>>

\* a resolution over the catalog of 4 and 10, with equally distant fill-ins
C10_Witness ==
    /\ nearCall.reply = "ok"
    /\ nearCall.rows = ScenarioSheet
    /\ NearestCluster = "OMR"
    /\ Cardinality(ClusterPart) = 4
    /\ Cardinality(FillPart) = 3
    /\ \E k \in FillPart, l \in FillPart :
           k < l /\ nearCall.top[k].distance_km = nearCall.top[l].distance_km


AllNames == NamesAt(1..Len(nearCall.rows))

\* C11: when geocoding succeeded over a catalog with at least one property, the
\* resolved list has at least min(7, number of unique property names) entries
\* and never more than 7.
C11_AtLeastMinSevenUnique ==
    (nearCall.reply = "ok" /\ nearCall.rows # <<>>) =>
        /\ Len(nearCall.top) >= AtMost(TopN, Cardinality(AllNames))
        /\ Len(nearCall.top) <= TopN

\* a cluster of fewer than 7 filled up to 7 from a catalog of more than 7
C11_Witness ==
    /\ nearCall.reply = "ok"
    /\ Cardinality(AllNames) > TopN
    /\ FillPart # {}
    /\ Len(nearCall.top) = TopN


\* ------------------------------ properties_according_to_budget (lines 556-715)
TopBudget == 5

Digits == {"0", "1", "2", "3", "4", "5", "6", "7", "8", "9"}

DigitValue(c) ==
    CASE c = "0" -> 0 [] c = "1" -> 1 [] c = "2" -> 2 [] c = "3" -> 3 [] c = "4" -> 4
      [] c = "5" -> 5 [] c = "6" -> 6 [] c = "7" -> 7 [] c = "8" -> 8 [] c = "9" -> 9

\* budget_query.replace(",", "")
remove_commas(x) == SelectSeq(x, LAMBDA c : c # ",")

\* the longest prefix of x made of digits
RECURSIVE digit_run(_)
digit_run(x) ==
    IF x = <<>> \/ Head(x) \notin Digits THEN <<>>
    ELSE <<Head(x)>> \o digit_run(Tail(x))

\* re.findall(r"\d+", x)[0], or None when the list is empty
RECURSIVE first_number(_)
first_number(x) ==
    IF x = <<>> THEN None
    ELSE IF Head(x) \in Digits THEN Some(digit_run(x))
    ELSE first_number(Tail(x))

\* int(digits)
RECURSIVE int(_)
int(ds) ==
    IF ds = <<>> THEN 0
    ELSE 10 * int(SubSeq(ds, 1, Len(ds) - 1)) + DigitValue(ds[Len(ds)])

\* properties_df[properties_df['Price'] <= budget]
within_budget(df, budget) == SelectSeq(df, LAMBDA r : r.price <= budget)

\* a narrowing that keeps the selected cluster even when nothing is left in it
prioritize_cluster_Hard(filtered_df, cluster) ==
    IF cluster # "" THEN rows_in(filtered_df, cluster) ELSE filtered_df

\* lines 656-662
prioritize_cluster(filtered_df, cluster) ==
    IF cluster # "" /\ rows_in(filtered_df, cluster) # <<>>
    THEN rows_in(filtered_df, cluster)
    ELSE filtered_df

\* lines 667-682
unique_props(filtered_df) ==
    LET names == unique(names_of(filtered_df))
    IN [k \in 1..Len(names) |->
           LET prop_rows == rows_named(filtered_df, names[k])
           IN [property_name |-> names[k],
               min_price |-> SeqMin(prices_of(prop_rows)),
               max_price |-> SeqMax(prices_of(prop_rows))]]

\* an insertion that orders by descending minimum price
RECURSIVE insort_price_Descending(_, _)
insort_price_Descending(sorted, x) ==
    IF sorted = <<>> THEN <<x>>
    ELSE IF x.min_price > Head(sorted).min_price THEN <<x>> \o sorted
    ELSE <<Head(sorted)>> \o insort_price_Descending(Tail(sorted), x)

RECURSIVE insort_price(_, _)
insort_price(sorted, x) ==
    IF sorted = <<>> THEN <<x>>
    ELSE IF x.min_price < Head(sorted).min_price THEN <<x>> \o sorted
    ELSE <<Head(sorted)>> \o insort_price(Tail(sorted), x)

\* unique_props.sort(key=lambda x: x['min_price'])
RECURSIVE sort_by_min_price(_)
sort_by_min_price(props) ==
    IF props = <<>> THEN <<>>
    ELSE insort_price(sort_by_min_price(SubSeq(props, 1, Len(props) - 1)), props[Len(props)])

\* lines 648-687 once the filtered set is known to be non-empty
top_properties(df, budget, cluster) ==
    take(sort_by_min_price(unique_props(prioritize_cluster(within_budget(df, budget), cluster))),
         TopBudget)


BudgetReplied(user_id, reply, budget_query, budget) ==
    /\ budgetCall' = [NoBudgetCall EXCEPT !.n = budgetCall.n + 1, !.user = user_id,
                                          !.reply = reply,
                                          !.query = budget_query, !.budget = budget]
    /\ UNCHANGED <<cacheVars, sessVars, nameCall, nearCall, availCall,
                              bed_availability>>

\* lines 637-687: the Price column is replaced in the shared DataFrame, then
\* the rows are filtered, narrowed, collapsed, sorted and cut
FilterByBudget(user_id, budget_query, budget, context_data, properties_df, outcome) ==
    LET rows == properties_df[1].rows
        cluster == IF missing(context_data, <<"cluster">>) THEN ""
                   ELSE context_data[<<"cluster">>]
    IN /\ sheet_properties_cache' = Some([properties_df[1] EXCEPT !.Price_dtype = "float"])
       /\ FetchedSheet(outcome)
       /\ UNCHANGED <<properties_data_cache, properties_lock, loader, nLoads>>
       /\ IF within_budget(rows, budget) = <<>>
          THEN BudgetReplied(user_id, "raise_budget", budget_query, budget)
          ELSE /\ budgetCall' = [n |-> budgetCall.n + 1, user |-> user_id, reply |-> "ok",
                                 query |-> budget_query, budget |-> budget, rows |-> rows,
                                 cluster |-> cluster,
                                 top |-> top_properties(rows, budget, cluster)]
               /\ UNCHANGED <<cacheVars, sessVars, nameCall, nearCall, availCall,
                              bed_availability>>

\* lines 614-635
ExtractBudget(user_id, budget_query, context_data) ==
    LET numbers == first_number(remove_commas(budget_query))
    IN IF numbers = None
       THEN BudgetReplied(user_id, "malformed", budget_query, 0) /\ UNCHANGED loadVars
       ELSE \E outcome \in IF sheet_properties_cache # None THEN {"rows"} ELSE SheetOutcomes :
               LET properties_df == sheet_returned(outcome)
               IN IF properties_df = None \/ properties_df[1].rows = <<>>
                  THEN /\ BudgetReplied(user_id, "catalog_unavailable", budget_query, int(numbers[1]))
                       /\ FetchedSheet(outcome)
                       /\ UNCHANGED <<sheet_properties_cache, properties_data_cache,
                                      properties_lock, loader, nLoads>>
                  ELSE FilterByBudget(user_id, budget_query, int(numbers[1]), context_data,
                                      properties_df, outcome)

\* lines 605-612
BudgetPrerequisites(user_id, budget_query, context_data) ==
    IF missing(context_data, <<"botProfession">>)
    THEN BudgetReplied(user_id, "ask_profession", budget_query, 0) /\ UNCHANGED loadVars
    ELSE IF missing(context_data, <<"botMoveInPreference">>)
    THEN BudgetReplied(user_id, "ask_timeline", budget_query, 0) /\ UNCHANGED loadVars
    ELSE IF missing(context_data, <<"botRoomSharingPreference">>)
    THEN BudgetReplied(user_id, "ask_room", budget_query, 0) /\ UNCHANGED loadVars
    ELSE ExtractBudget(user_id, budget_query, context_data)

\* lines 589-600
Budget(user_id, budget_query) ==
    /\ budgetCall.n < MaxBudgetCalls
    /\ LET got == get_cached_context(user_context_cache, user_id)
       IN IF got[1] /\ DOMAIN got[2] # {}
          THEN BudgetPrerequisites(user_id, budget_query, got[2])
          ELSE \E db \in {"ok", "raise"} :
                   IF db = "raise"
                   THEN \E e \in ErrorTexts :
                            /\ BudgetReplied(user_id, properties_according_to_budget_except(e),
                                             budget_query, 0)
                            /\ UNCHANGED loadVars
                   ELSE IF user_id \notin DOMAIN context_collection
                   THEN BudgetReplied(user_id, "no_user_doc", budget_query, 0) /\ UNCHANGED loadVars
                   ELSE BudgetPrerequisites(user_id, budget_query,
                                            ContextOf(context_collection[user_id]))

BudgetRowKinds ==
    {[name |-> n, cluster |-> c, lat |-> IF c = "OMR" THEN 1 ELSE 3, price |-> pr] :
        n \in {1, 2}, c \in Clusters, pr \in {6000, 9000}}

\* four properties priced 6000, 7000, 9000, 8000
PriceScenarioSheet ==
    [i \in 1..4 |-> [name |-> i, cluster |-> "OMR", lat |-> 1,
                     price |-> <<6000, 7000, 9000, 8000>>[i]]]

\* six properties, two of them at the same price
SixSheet ==
    [i \in 1..6 |-> [name |-> i, cluster |-> IF i % 2 = 0 THEN "OMR" ELSE "ECR",
                     lat |-> IF i % 2 = 0 THEN 1 ELSE 3,
                     price |-> <<9000, 6000, 8000, 6000, 7000, 5000>>[i]]]

BudgetSheets == SheetsUpTo(BudgetRowKinds, MaxBudgetRows) \cup {PriceScenarioSheet, SixSheet}

MyBudgetIs8000 ==
    <<"m", "y", " ", "b", "u", "d", "g", "e", "t", " ", "i", "s", " ", "8", ",", "0", "0", "0">>

BudgetQueries ==
    StringsUpTo({"7", ",", "k"}, MaxQueryLen)
    \cup {MyBudgetIs8000,
          <<"u", "n", "d", "e", "r", " ", "3", "0", "0", "0">>,
          <<"9", "0", "0", "0", " ", "m", "a", "x">>,
          <<"6", ",", "0", "0", "0">>,
          <<"7", ",", "7", "k", "7">>,
          <<"n", "o", " ", "i", "d", "e", "a">>}

BudgetInit ==
    /\ \/ \E ctx \in NearContexts :
              user_context_cache = [u \in {"u1"} |-> NewEntry(ctx)]
       \/ user_context_cache = [u \in {} |-> NewEntry(EmptyDict)]
    /\ context_collection = [u \in {"u1"} |-> DictPut(EmptyDict, <<"context_data", "name">>, "v1")]
    /\ flushTask = [t \in FlushTasks |-> IdleTask]
    /\ lastFlush = NoFlush
    /\ updLog = [u \in UserIds |-> <<>>]
    /\ installed = DOMAIN user_context_cache
    /\ lastOp = [u \in UserIds |-> OtherOp]
    /\ nOps = 0
    /\ nFlush = 0
    /\ SessVarsInit /\ ToolVarsInit /\ MoreVarsInit /\ LoadersIdle
    /\ properties_data_cache = None
    /\ sheet_properties_cache \in {None} \cup {Some(DataFrame(rows)) : rows \in BudgetSheets}

BudgetNext ==
    \/ \E user_id \in UserIds, location_query \in LocationQueries :
           FindNearest(user_id, location_query)
    \/ \E user_id \in UserIds, budget_query \in BudgetQueries :
           Budget(user_id, budget_query)

SpecBudget == BudgetInit /\ [][BudgetNext /\ UNCHANGED moreVars]_vars


PricesNamed(rows, prop) == {rows[i].price : i \in {j \in 1..Len(rows) : rows[j].name = prop}}

SetMin(S) == CHOOSE x \in S : \A y \in S : x <= y

SetMax(S) == CHOOSE x \in S : \A y \in S : x >= y

\* every name occurs once in the list and carries the extreme prices of all
\* the catalog rows of that name
OnePerNameOverAllRows(top, rows) ==
    /\ \A k \in 1..Len(top), l \in 1..Len(top) :
           top[k].property_name = top[l].property_name => k = l
    /\ \A k \in 1..Len(top) :
           /\ top[k].min_price = SetMin(PricesNamed(rows, top[k].property_name))
           /\ top[k].max_price = SetMax(PricesNamed(rows, top[k].property_name))

\* C12: in the lists of both resolvers each property name has exactly one
\* entry, whose minimum and maximum price are taken over all catalog rows of
\* that name.
C12_OneEntryPricesOverAllRows ==
    /\ nearCall.reply = "ok" => OnePerNameOverAllRows(nearCall.top, nearCall.rows)
    /\ budgetCall.reply = "ok" => OnePerNameOverAllRows(budgetCall.top, budgetCall.rows)


Prerequisites == <<<<"botProfession">>, <<"botMoveInPreference">>, <<"botRoomSharingPreference">>>>

FollowUps == <<"ask_profession", "ask_timeline", "ask_room">>

\* the positions of the prerequisite fields that ctx lacks: absent or empty
Lacking(ctx) ==
    {k \in 1..3 : Prerequisites[k] \notin DOMAIN ctx \/ ctx[Prerequisites[k]] = ""}

\* the context a tool call for user_id works on, before the call
ContextBefore(user_id) ==
    IF user_id \in DOMAIN user_context_cache
       /\ DOMAIN user_context_cache[user_id].context_data # {}
    THEN user_context_cache[user_id].context_data
    ELSE ContextOf(context_collection[user_id])

\* a step in which a tool call that found the user's context returned `reply`
PrerequisiteRule(user_id, reply) ==
    reply \notin {"error", "raised", "no_user_doc"} =>
        IF Lacking(ContextBefore(user_id)) # {}
        THEN /\ reply = FollowUps[Lowest(Lacking(ContextBefore(user_id)))]
             /\ UNCHANGED <<cacheVars, loadVars>>
        ELSE reply \notin Range(FollowUps)

\* C13: both resolvers answer a context that lacks a prerequisite with the
\* follow-up for the first missing field in the order profession, timeline,
\* room type, without loading the catalog and without changing the cache, and
\* proceed only when all three are present.
C13_FirstMissingPrerequisite ==
    [][/\ nearCall' # nearCall => PrerequisiteRule(nearCall'.user, nearCall'.reply)
       /\ budgetCall' # budgetCall => PrerequisiteRule(budgetCall'.user, budgetCall'.reply)]_vars

\* both resolvers asked for the room type of a context whose room type is empty
C13_Witness ==
    /\ nearCall.reply = "ask_room"
    /\ budgetCall.reply = "ask_room"
    /\ user_context_cache["u1"].context_data[<<"botRoomSharingPreference">>] = ""


\* the rows of the last budget resolution that are within the budget, and
\* those of them in the cluster the context had selected
WithinBudget == {i \in 1..Len(budgetCall.rows) : budgetCall.rows[i].price <= budgetCall.budget}

InSelected == {i \in WithinBudget : budgetCall.rows[i].cluster = budgetCall.cluster}

BudgetNamesAt(rowset) == {budgetCall.rows[i].name : i \in rowset}

BudgetTopNames == {budgetCall.top[k].property_name : k \in 1..Len(budgetCall.top)}

\* C14: every resolved property has a minimum price within the budget; with a
\* selected cluster that holds a within-budget row every resolved property is
\* of that cluster; otherwise the list is drawn from the whole within-budget
\* set and is not empty.
C14_WithinBudgetSoftCluster ==
    budgetCall.reply = "ok" =>
        /\ \A k \in 1..Len(budgetCall.top) : budgetCall.top[k].min_price <= budgetCall.budget
        /\ IF budgetCall.cluster # "" /\ InSelected # {}
           THEN /\ BudgetTopNames \subseteq BudgetNamesAt(InSelected)
                /\ BudgetTopNames # {}
           ELSE /\ BudgetTopNames \subseteq BudgetNamesAt(WithinBudget)
                /\ Cardinality(BudgetTopNames) =
                       AtMost(TopBudget, Cardinality(BudgetNamesAt(WithinBudget)))
                /\ BudgetTopNames # {}

\* a selected cluster without any within-budget row, answered from the rest
C14_Witness ==
    /\ budgetCall.reply = "ok"
    /\ budgetCall.cluster # ""
    /\ InSelected = {}
    /\ \E i \in 1..Len(budgetCall.rows) : budgetCall.rows[i].cluster = budgetCall.cluster
    /\ budgetCall.top # <<>>


RECURSIVE Pow10(_)
Pow10(n) == IF n = 0 THEN 1 ELSE 10 * Pow10(n - 1)

\* the sentence of the last budget call without its commas, the position of
\* its first digit, the end of the run of digits starting there, and the
\* number that run denotes
Sentence == SelectSeq(budgetCall.query, LAMBDA c : c # ",")

DigitsAt == {i \in 1..Len(Sentence) : Sentence[i] \in Digits}

RunStart == Lowest(DigitsAt)

RunEnd ==
    CHOOSE j \in RunStart..Len(Sentence) :
        /\ \A i \in RunStart..j : i \in DigitsAt
        /\ (j + 1) \notin DigitsAt

RunValue ==
    LET Sum[i \in (RunStart - 1)..RunEnd] ==
            IF i < RunStart THEN 0
            ELSE Sum[i - 1] + DigitValue(Sentence[i]) * Pow10(RunEnd - i)
    IN Sum[RunEnd]

\* the minimum price of a property over the rows rowset
MinPriceIn(rowset, prop) ==
    SetMin({budgetCall.rows[i].price : i \in {j \in rowset : budgetCall.rows[j].name = prop}})

\* the list holds the cheapest properties of rowset, at most 5, cheapest first
CheapestOf(rowset) ==
    /\ Len(budgetCall.top) = AtMost(TopBudget, Cardinality(BudgetNamesAt(rowset)))
    /\ Cardinality(BudgetTopNames) = Len(budgetCall.top)
    /\ BudgetTopNames \subseteq BudgetNamesAt(rowset)
    /\ \A k \in 1..Len(budgetCall.top) :
           budgetCall.top[k].min_price = MinPriceIn(rowset, budgetCall.top[k].property_name)
    /\ \A k \in 1..Len(budgetCall.top), l \in 1..Len(budgetCall.top) :
           k < l => budgetCall.top[k].min_price <= budgetCall.top[l].min_price
    /\ \A q \in BudgetNamesAt(rowset) \ BudgetTopNames :
           \A k \in 1..Len(budgetCall.top) :
               budgetCall.top[k].min_price <= MinPriceIn(rowset, q)

\* a call that got past the context and the prerequisites
BudgetExamined ==
    budgetCall.reply \in {"malformed", "catalog_unavailable", "raise_budget", "ok"}

\* the extraction, the two prompts and the scenario; Listed is the rule for
\* the resolved list
BudgetRule(Listed) ==
    BudgetExamined =>
        IF DigitsAt = {}
        THEN budgetCall.reply = "malformed"
        ELSE /\ budgetCall.reply # "malformed"
             /\ budgetCall.budget = RunValue
             /\ budgetCall.reply # "catalog_unavailable" =>
                    IF \A i \in 1..Len(budgetCall.rows) : budgetCall.rows[i].price > RunValue
                    THEN budgetCall.reply = "raise_budget"
                    ELSE /\ budgetCall.reply = "ok"
                         /\ Listed
             /\ (budgetCall.reply = "ok" /\ budgetCall.query = MyBudgetIs8000
                     /\ budgetCall.rows = PriceScenarioSheet) =>
                    [k \in 1..Len(budgetCall.top) |-> budgetCall.top[k].min_price]
                        = <<6000, 7000, 8000>>

\* C15 as stated: the budget is the first run of digits once commas are
\* removed; no digit gives the malformed-input reply; a budget below every
\* price gives the raise-your-budget prompt; otherwise the list is the
\* within-budget properties by ascending minimum price, cut to 5.
C15_WithinBudgetAscending == BudgetRule(CheapestOf(WithinBudget))

\* C15 amended: as stated, except that the list is taken from the within-budget
\* rows of the selected cluster whenever the context selects a cluster that
\* holds a within-budget row.
C15_NarrowedAscending ==
    BudgetRule(CheapestOf(IF budgetCall.cluster # "" /\ InSelected # {}
                          THEN InSelected ELSE WithinBudget))

\* the sentence "my budget is 8,000" against the prices 6000, 7000, 9000, 8000
C15_Witness ==
    /\ budgetCall.reply = "ok"
    /\ budgetCall.query = MyBudgetIs8000
    /\ budgetCall.rows = PriceScenarioSheet
    /\ budgetCall.budget = 8000
    /\ Len(budgetCall.top) = 3


\* ------------- get_room_availability, get_all_room_availability (1793-2045)
ShownRooms == 3

RoomKinds ==
    {[roomTypeName |-> "Single", availableBeds |-> b,
      availableFemaleBeds |-> IF b > 1 THEN 1 ELSE 0, availableMaleBeds |-> 0] :
        b \in {0 - 1, 0, 1, 2}}

\* the "data" list of a /bed-availability response
AvailabilityData ==
    SheetsUpTo([propertyId : {1, 2}, availability : SheetsUpTo(RoomKinds, MaxRooms)], MaxProps)

\* what awaiting WardenHelper.get_bed_availability can produce: an exception,
\* or a body with or without a truthy "success" and with or without "data";
\* the endpoint answers alike throughout a behaviour
Upstream ==
    {Unreachable}
    \cup {api_failed(text) : text \in ErrorTexts}
    \cup {[kind |-> "body", success |-> TRUE, data |-> d, message |-> <<>>] :
             d \in {None} \cup {Some(l) : l \in AvailabilityData}}
    \cup {[kind |-> "body", success |-> FALSE, data |-> d, message |-> <<>>] :
             d \in {None} \cup {Some(l) : l \in {x \in AvailabilityData : Len(x) <= 1}}}

\* property lists the Warden API has served; the second has an entry without id
AvailCatalogs ==
    {<<[id |-> 1, name |-> <<"a">>], [id |-> 2, name |-> <<"b">>]>>,
     <<[id |-> 1, name |-> <<"a">>], [id |-> 0, name |-> <<"b">>]>>,
     <<>>}

PropertyNames == {<<>>, <<"a">>, <<"b">>, <<"x">>}

\* load_properties_once called with the cache unset: the cache afterwards
load_once(cache, outcome) ==
    IF cache # None THEN cache
    ELSE IF outcome = "raise" THEN None
    ELSE response_data(outcome)

load_counted(stats, cache, outcome) ==
    IF cache # None THEN stats
    ELSE IF outcome = "raise" THEN [stats EXCEPT !.api = Issue(@)]
    ELSE [stats EXCEPT !.api = [Issue(@) EXCEPT
             !.assigned = IF response_data(outcome) # None THEN @ + 1 ELSE @,
             !.succeeded = (@ \/ outcome # "data_null"),
             !.usable = (@ \/ outcome = "list")]]

\* a loop that keeps every room type
RECURSIVE rooms_with_beds_All(_)
rooms_with_beds_All(availability) ==
    IF availability = <<>> THEN <<>>
    ELSE <<Head(availability)>> \o rooms_with_beds_All(Tail(availability))

\* the inner loop of both tools (lines 1832-1855, 1951-1975): the room types
\* with availableBeds > 0, in order
RECURSIVE rooms_with_beds(_)
rooms_with_beds(availability) ==
    IF availability = <<>> THEN <<>>
    ELSE IF Head(availability).availableBeds > 0
         THEN <<Head(availability)>> \o rooms_with_beds(Tail(availability))
    ELSE rooms_with_beds(Tail(availability))

RECURSIVE beds_sum(_)
beds_sum(rooms) ==
    IF rooms = <<>> THEN 0 ELSE Head(rooms).availableBeds + beds_sum(Tail(rooms))

\* the outer loop of get_room_availability (lines 1831-1855)
RECURSIVE available_rooms(_)
available_rooms(availability_data) ==
    IF availability_data = <<>> THEN <<>>
    ELSE rooms_with_beds(Head(availability_data).availability)
             \o available_rooms(Tail(availability_data))

\* property_map (lines 1914-1924): the truthy ids of the property list
property_map(list) == {list[i].id : i \in {j \in 1..Len(list) : list[j].id # 0}}

\* the outer loop of get_all_room_availability (lines 1941-1986)
RECURSIVE available_properties(_, _)
available_properties(availability_data, map) ==
    IF availability_data = <<>> THEN <<>>
    ELSE LET pa == Head(availability_data)
             rooms == rooms_with_beds(pa.availability)
             rest == available_properties(Tail(availability_data), map)
         IN IF pa.propertyId \in map /\ beds_sum(rooms) > 0
            THEN <<[propertyId |-> pa.propertyId, availableBeds |-> beds_sum(rooms),
                    rooms |-> rooms]>> \o rest
            ELSE rest

\* an insertion for ascending availability
RECURSIVE insort_beds_Ascending(_, _)
insort_beds_Ascending(sorted, x) ==
    IF sorted = <<>> THEN <<x>>
    ELSE IF x.availableBeds < Head(sorted).availableBeds THEN <<x>> \o sorted
    ELSE <<Head(sorted)>> \o insort_beds_Ascending(Tail(sorted), x)

\* sort(key=availableBeds, reverse=True) is stable: equal sums keep their order
RECURSIVE insort_beds(_, _)
insort_beds(sorted, x) ==
    IF sorted = <<>> THEN <<x>>
    ELSE IF x.availableBeds > Head(sorted).availableBeds THEN <<x>> \o sorted
    ELSE <<Head(sorted)>> \o insort_beds(Tail(sorted), x)

RECURSIVE sort_by_beds(_)
sort_by_beds(props) ==
    IF props = <<>> THEN <<>>
    ELSE insort_beds(sort_by_beds(SubSeq(props, 1, Len(props) - 1)), props[Len(props)])


\* the tool returns: the record of the call, the caches after its loads
AvailReplied(tool, reply, response, map, result, cache, stats) ==
    /\ availCall' = [n |-> availCall.n + 1, tool |-> tool, reply |-> reply,
                     response |-> response, map |-> map, result |-> result]
    /\ properties_data_cache' = cache
    /\ loadStats' = stats
    /\ UNCHANGED <<cacheVars, sessVars, nameCall, nearCall, budgetCall, bed_availability,
                   sheet_properties_cache, properties_lock, loader, nLoads>>

FirstLoads == IF properties_data_cache = None THEN WardenOutcomes ELSE {"list"}

\* response.get("data", []) of get_bed_availability_by_property_name, or None
\* from its except branch, whose log call passes the message alone
\* (lines 286-296)
beds_of(upstream) ==
    IF upstream.kind = "raise" THEN None
    ELSE IF upstream.data = None THEN Some(<<>>)
    ELSE upstream.data

\* get_room_availability (lines 1807-1881) with the helper it awaits
RoomAvailability(user_id, property_name) ==
    /\ availCall.n < MaxAvailCalls
    /\ \E o1 \in FirstLoads :
        LET cache1 == load_once(properties_data_cache, o1)
            stats1 == load_counted(loadStats, properties_data_cache, o1)
        IN IF property_name = <<>>
           THEN AvailReplied("room", "ask_property", None, {}, <<>>, cache1, stats1)
           ELSE \E o2 \in IF cache1 = None THEN WardenOutcomes ELSE {"list"} :
                LET cache2 == load_once(cache1, o2)
                    stats2 == load_counted(stats1, cache1, o2)
                    property_id == get_properties_id_from_name(cache2, property_name)
                IN IF property_id = None \/ property_id[1] = 0
                   THEN AvailReplied("room", "unavailable", None, {}, <<>>, cache2, stats2)
                   ELSE LET upstream == bed_availability
                            availability_data == beds_of(upstream)
                        IN IF availability_data = None \/ availability_data[1] = <<>>
                           THEN AvailReplied("room", "unavailable", Some(upstream), {}, <<>>,
                                             cache2, stats2)
                           ELSE IF available_rooms(availability_data[1]) # <<>>
                           THEN AvailReplied("room", "available", Some(upstream), {},
                                             available_rooms(availability_data[1]),
                                             cache2, stats2)
                           ELSE AvailReplied("room", "fully_booked", Some(upstream), {}, <<>>,
                                             cache2, stats2)

\* get_all_room_availability (lines 1903-2045)
AllRoomAvailability(user_id) ==
    /\ availCall.n < MaxAvailCalls
    /\ \E o1 \in FirstLoads :
        LET cache1 == load_once(properties_data_cache, o1)
            stats1 == load_counted(loadStats, properties_data_cache, o1)
        IN IF cache1 = None \/ cache1[1] = <<>>
           THEN AvailReplied("all", "no_property_data", None, {}, <<>>, cache1, stats1)
           ELSE LET upstream == bed_availability
                    map == property_map(cache1[1])
                    availability_data == IF upstream.data = None THEN <<>>
                                         ELSE upstream.data[1]
                    found == available_properties(availability_data, map)
                IN IF upstream.kind = "raise"
                   THEN AvailReplied("all", get_all_room_availability_except(upstream.message),
                                     Some(upstream), map, <<>>, cache1, stats1)
                   ELSE IF ~upstream.success
                   THEN AvailReplied("all", "fetch_failed", Some(upstream), map, <<>>,
                                     cache1, stats1)
                   ELSE IF found = <<>>
                   THEN AvailReplied("all", "all_booked", Some(upstream), map, <<>>,
                                     cache1, stats1)
                   ELSE AvailReplied("all", "ok", Some(upstream), map, sort_by_beds(found),
                                     cache1, stats1)

AvailInit ==
    /\ CacheVarsInit /\ SessVarsInit /\ MoreVarsInit /\ LoadersIdle
    /\ nameCall = NoNameCall
    /\ nearCall = NoNearCall
    /\ budgetCall = NoBudgetCall
    /\ availCall = NoAvailCall
    /\ bed_availability \in Upstream
    /\ sheet_properties_cache = None
    /\ properties_data_cache \in {None} \cup {Some(l) : l \in AvailCatalogs}

AvailNext ==
    \/ \E user_id \in UserIds, property_name \in PropertyNames :
           RoomAvailability(user_id, property_name)
    \/ \E user_id \in UserIds : AllRoomAvailability(user_id)

SpecAvail == AvailInit /\ [][AvailNext /\ UNCHANGED moreVars]_vars


\* the "data" list the upstream sent for the last availability call
SentData ==
    IF availCall.response = None \/ availCall.response[1].data = None THEN <<>>
    ELSE availCall.response[1].data[1]

\* the room types of property record p that have beds
BedRooms(p) ==
    {r \in 1..Len(SentData[p].availability) : SentData[p].availability[r].availableBeds > 0}

AllBedRooms == {<<p, r>> \in (1..MaxProps + 1) \X (1..MaxRooms + 1) :
                   p <= Len(SentData) /\ r \in BedRooms(p)}

\* no entry without beds, and no room type with beds left out
OnlyRoomsWithBeds ==
    /\ availCall.tool = "room" =>
           /\ \A k \in 1..Len(availCall.result) : availCall.result[k].availableBeds > 0
           /\ availCall.reply = "available" =>
                  Len(availCall.result) = Cardinality(AllBedRooms)
    /\ availCall.tool = "all" =>
           \A k \in 1..Len(availCall.result) :
               /\ availCall.result[k].rooms # <<>>
               /\ \A r \in 1..Len(availCall.result[k].rooms) :
                      availCall.result[k].rooms[r].availableBeds > 0

\* the upstream answered the single-property form with a body
RoomAnswered ==
    /\ availCall.tool = "room"
    /\ availCall.response # None
    /\ availCall.response[1].kind = "body"

\* C16 as stated: neither form lists a room type whose available beds are 0 or
\* negative, and the single-property form reports fully booked whenever no
\* room type of the response has available beds.
C16_NoZeroElseFullyBooked ==
    /\ OnlyRoomsWithBeds
    /\ (RoomAnswered /\ AllBedRooms = {}) => availCall.reply = "fully_booked"

\* C16 amended: fully booked is reported when the response carries at least one
\* property record and none of its room types has available beds; a response
\* without any record gets the could-not-check reply.
C16_NoZeroElseBookedOrUnchecked ==
    /\ OnlyRoomsWithBeds
    /\ (RoomAnswered /\ AllBedRooms = {}) =>
           availCall.reply = IF SentData = <<>> THEN "unavailable" ELSE "fully_booked"
    /\ (RoomAnswered /\ AllBedRooms # {}) => availCall.reply = "available"

\* a response mixing room types with and without beds, answered with the former
C16_Witness ==
    /\ availCall.tool = "room"
    /\ availCall.reply = "available"
    /\ \E p \in 1..Len(SentData) : \E r \in 1..Len(SentData[p].availability) :
           SentData[p].availability[r].availableBeds <= 0


\* the beds of property record p summed over its room types that have beds
BedsOf(p) ==
    LET rooms == SentData[p].availability
        Sum[r \in 0..Len(rooms)] ==
            IF r = 0 THEN 0
            ELSE Sum[r - 1] + (IF rooms[r].availableBeds > 0 THEN rooms[r].availableBeds ELSE 0)
    IN Sum[Len(rooms)]

\* the ids of the loaded property list
CatalogIds ==
    IF properties_data_cache = None THEN {}
    ELSE {properties_data_cache[1][i].id : i \in 1..Len(properties_data_cache[1])} \ {0}

Qualifying == {p \in 1..Len(SentData) : SentData[p].propertyId \in CatalogIds /\ BedsOf(p) > 0}

\* C17: the list of get_all_room_availability holds exactly the records of the
\* response whose id is in the catalog id map and whose beds, summed over the
\* room types with beds, are positive; each carries that sum; the list is in
\* descending order of the sum.
C17_ExactlyQualifyingDescending ==
    (availCall.tool = "all" /\ availCall.reply \in {"ok", "all_booked"}) =>
        /\ availCall.reply = "all_booked" <=> Qualifying = {}
        /\ Len(availCall.result) = Cardinality(Qualifying)
        /\ \E f \in [1..Len(availCall.result) -> Qualifying] :
               /\ \A k \in DOMAIN f, l \in DOMAIN f : f[k] = f[l] => k = l
               /\ \A k \in DOMAIN f :
                      /\ availCall.result[k].propertyId = SentData[f[k]].propertyId
                      /\ availCall.result[k].availableBeds = BedsOf(f[k])
        /\ \A k \in 1..Len(availCall.result) :
               availCall.result[k].propertyId \in CatalogIds
        /\ \A k \in 1..Len(availCall.result), l \in 1..Len(availCall.result) :
               k < l => availCall.result[k].availableBeds >= availCall.result[l].availableBeds

\* two listed properties that the response sent in ascending order of beds
C17_Witness ==
    /\ availCall.tool = "all"
    /\ availCall.reply = "ok"
    /\ Len(availCall.result) = 2
    /\ BedsOf(1) < BedsOf(2)
    /\ availCall.result[1].availableBeds > availCall.result[2].availableBeds
    /\ \E r \in 1..Len(SentData[1].availability) : SentData[1].availability[r].availableBeds <= 0

\* the tool calls that have returned: what each handed to its caller
ToolReplies ==
    {c.reply : c \in {[reply |-> nearCall.reply], [reply |-> budgetCall.reply],
                      [reply |-> availCall.reply]}} \ {"none"}

\* C18: whatever the durable store, the catalog sources, the geocoder or the
\* availability API do, every tool call returns a string: no call ends with
\* an exception reaching its caller.
C18_EveryToolReturnsString == "raised" \notin ToolReplies

\* ------------------------------- explore_more_properties (lines 969-1118)
\* property names of the pricing sheet, as the API catalog also spells them
ExploreNames == {<<"a">>, <<"A", "b">>, <<"b", "a">>}

ExploreRowKinds == [name : ExploreNames, cluster : {"OMR", "ECR"}]

ExploreSheets == SheetsUpTo(ExploreRowKinds, MaxExploreRows)

\* what the model passes to the voice tool: comma-separated property names
ExcludeArgs ==
    {<<>>, <<"a">>, <<"a", "b">>, <<"A", "b">>, <<"b", "a">>, <<"a", "b", ",", "a">>,
     <<" ", "b", "a">>, <<"a", ",", "b", "a">>}

\* the cluster the context holds: none, or a name in either case
StoredClusters == {"", "OMR", "omr"}

\* str.upper on a cluster name
upper(cluster) == IF cluster = "omr" THEN "OMR" ELSE IF cluster = "ecr" THEN "ECR" ELSE cluster

ExploreCatalog == <<[id |-> 1, name |-> <<"a">>], [id |-> 2, name |-> <<"A", "b">>],
                    [id |-> 3, name |-> <<"b", "a">>]>>

Room(beds) == [roomTypeName |-> "Single", availableBeds |-> beds]

\* what get_bed_availability_by_property_name returns for one property: None,
\* or the "data" list of the response
BedResponses ==
    {None, Some(<<>>),
     Some(<<[availability |-> <<Room(0)>>]>>),
     Some(<<[availability |-> <<Room(0), Room(2)>>]>>),
     Some(<<[availability |-> <<Room(0)>>], [availability |-> <<Room(1)>>]>>)}

\* TrulivAssistant.voice_explore_more_properties (assistant.py lines 248-262)
\* hands the comma-separated string on as it is; `for p in exclude_properties`
\* (line 1020) then runs over a str, which yields its characters one by one
iterate(exclude_properties) ==
    [i \in 1..Len(exclude_properties) |-> <<exclude_properties[i]>>]

\* except Exception of explore_more_properties (lines 1115-1117)
explore_more_properties_except(e) ==
    IF logger_error_raises(tool_error_message(e), {"exc_info"}) THEN "raised" ELSE "error"

\* [p.strip().lower() for p in exclude_properties] (line 1020)
exclude_normalized(items) == {lower(strip(items[i])) : i \in 1..Len(items)}

\* lines 1008-1025: the unique names of the cluster's rows, without the
\* excluded ones when an exclusion is given
unique_properties(properties_df, cluster, items) ==
    LET cluster_properties == SelectSeq(properties_df, LAMBDA r : upper(r.cluster) = upper(cluster))
        names == unique([i \in 1..Len(cluster_properties) |-> cluster_properties[i].name])
    IN IF items = <<>> THEN names
       ELSE SelectSeq(names, LAMBDA p : lower(p) \notin exclude_normalized(items))

\* lines 1060-1068 over bed_resp[0]: some room type has beds
has_available_beds(bed_resp) ==
    \E i \in 1..Len(bed_resp[1].availability) : bed_resp[1].availability[i].availableBeds > 0

\* lines 1034-1088: the names that have a Warden id and beds in their response
explore_results(names, cache, beds) ==
    SelectSeq(names, LAMBDA p :
        LET property_id == get_properties_id_from_name(cache, p)
        IN /\ property_id # None
           /\ property_id[1] \in DOMAIN beds
           /\ beds[property_id[1]] # None
           /\ beds[property_id[1]][1] # <<>>
           /\ has_available_beds(beds[property_id[1]][1]))

ExploreReplied(reply, exclude, cluster, rows, cache, beds, names) ==
    /\ exploreCall' = [n |-> exploreCall.n + 1, reply |-> reply, exclude |-> exclude,
                       cluster |-> cluster, rows |-> rows,
                       catalog |-> IF cache = None THEN <<>> ELSE cache[1],
                       response |-> beds, names |-> names]
    /\ UNCHANGED <<cacheVars, sessVars, toolVars, schedVars, dbVars, sheet_properties_cache,
                   properties_lock, loader, nLoads>>

\* lines 992-1110, once the context is at hand
ExploreWith(exclude_properties, context_data) ==
    LET cluster == IF <<"cluster">> \in DOMAIN context_data THEN context_data[<<"cluster">>]
                   ELSE ""
        NoLoad == UNCHANGED <<properties_data_cache, loadStats>>
    IN IF cluster = ""
       THEN ExploreReplied("ask_area", exclude_properties, "", <<>>, None, <<>>, <<>>) /\ NoLoad
       ELSE \E o1 \in FirstLoads, sheet \in {None} \cup {Some(x) : x \in ExploreSheets} :
            LET cache1 == load_once(properties_data_cache, o1)
                stats1 == load_counted(loadStats, properties_data_cache, o1)
                Loaded == properties_data_cache' = cache1 /\ loadStats' = stats1
                Reply(reply, beds, names) ==
                    /\ ExploreReplied(reply, exclude_properties, cluster,
                                      IF sheet = None THEN <<>> ELSE sheet[1], cache1, beds, names)
                    /\ Loaded
            IN IF sheet = None \/ sheet[1] = <<>>
               THEN Reply("catalog_unavailable", <<>>, <<>>)
               ELSE IF unique_properties(sheet[1], cluster, <<>>) = <<>>
               THEN Reply("none_in_area", <<>>, <<>>)
               ELSE LET names == unique_properties(sheet[1], cluster,
                                                   iterate(exclude_properties))
                    IN IF names = <<>>
                       THEN Reply("seen_all", <<>>, <<>>)
                       ELSE \E beds \in [1..Len(ExploreCatalog) -> BedResponses] :
                            LET results == explore_results(names, cache1, beds)
                            IN Reply(IF results = <<>> THEN "no_more" ELSE "ok", beds, results)

\* explore_more_properties as the voice tool invokes it (lines 980-990): the
\* context from the cache, or from the durable store when the cache has none
ExploreMore(user_id, exclude_properties) ==
    /\ exploreCall.n < MaxExploreCalls
    /\ LET got == get_cached_context(user_context_cache, user_id)
           Unresolved(reply) ==
               /\ ExploreReplied(reply, exclude_properties, "", <<>>, None, <<>>, <<>>)
               /\ UNCHANGED <<properties_data_cache, loadStats>>
       IN IF got[1] /\ DOMAIN got[2] # {}
          THEN ExploreWith(exclude_properties, got[2])
          ELSE \E db \in {"ok", "raise"} :
                   IF db = "raise"
                   THEN \E e \in ErrorTexts : Unresolved(explore_more_properties_except(e))
                   ELSE IF user_id \notin DOMAIN context_collection
                   THEN Unresolved("ask_area")
                   ELSE ExploreWith(exclude_properties, ContextOf(context_collection[user_id]))

ExploreInit ==
    /\ \E cluster \in StoredClusters :
           /\ user_context_cache \in
                  {[u \in {"u1"} |->
                       NewEntry(IF cluster = "" THEN CompleteContext
                                ELSE DictPut(CompleteContext, <<"cluster">>, cluster))],
                   [u \in {} |-> NewEntry(EmptyDict)]}
           /\ context_collection =
                  [u \in {"u1"} |-> DictPut(EmptyDict, <<"context_data", "cluster">>, cluster)]
    /\ flushTask = [t \in FlushTasks |-> IdleTask]
    /\ lastFlush = NoFlush
    /\ updLog = [u \in UserIds |-> <<>>]
    /\ installed = DOMAIN user_context_cache
    /\ lastOp = [u \in UserIds |-> OtherOp]
    /\ nOps = 0
    /\ nFlush = 0
    /\ SessVarsInit /\ ToolVarsInit /\ MoreVarsInit /\ LoadersIdle
    /\ sheet_properties_cache = None
    /\ properties_data_cache \in {None, Some(ExploreCatalog)}

ExploreNext ==
    \E user_id \in UserIds, exclude_properties \in ExcludeArgs :
        ExploreMore(user_id, exclude_properties)

SpecExplore == ExploreInit /\ [][ExploreNext]_vars

\* the names a comma-separated argument lists, trimmed and in lower case
ExcludedNames(arg) ==
    {lower(strip(SubSeq(arg, i, j))) :
        <<i, j>> \in {<<a, b>> \in (1..Len(arg) + 1) \X (0..Len(arg)) :
                        /\ b + 1 >= a
                        /\ \A k \in a..b : arg[k] # ","
                        /\ (a = 1 \/ arg[a - 1] = ",")
                        /\ (b = Len(arg) \/ arg[b + 1] = ",")}}

\* the availability records the live response holds for the property named p
LiveRecords(p) ==
    LET property_id == get_properties_id_from_name(Some(exploreCall.catalog), p)
    IN IF property_id = None \/ property_id[1] \notin DOMAIN exploreCall.response
          \/ exploreCall.response[property_id[1]] = None
       THEN <<>>
       ELSE exploreCall.response[property_id[1]][1]

\* C22: a result of explore_more_properties, called by the voice tool with a
\* comma-separated exclusion, names no excluded property (names compared
\* trimmed and without case), and names only properties of the user's cluster
\* that have a room type with available beds in the live response.
C22_NamesNoExcludedProperty ==
    exploreCall.reply = "ok" =>
        \A i \in 1..Len(exploreCall.names) :
            LET p == exploreCall.names[i]
            IN /\ lower(strip(p)) \notin ExcludedNames(exploreCall.exclude)
               /\ \E r \in 1..Len(exploreCall.rows) :
                      /\ exploreCall.rows[r].name = p
                      /\ upper(exploreCall.rows[r].cluster) = upper(exploreCall.cluster)
               /\ \E k \in 1..Len(LiveRecords(p)) :
                      \E a \in 1..Len(LiveRecords(p)[k].availability) :
                          LiveRecords(p)[k].availability[a].availableBeds > 0


\* ------------------------------- the calls' tools on one event loop
\* A coroutine runs on the loop's thread from one await to the next. While it
\* awaits the sheet (run_in_executor, sheets_client.py line 162) or the
\* Warden API (aiohttp) it is suspended and the thread is free; a call that
\* is not awaited keeps the thread until it returns.

\* find_nearest_property is invoked (lines 394-436): with the sheet cached it
\* runs on to the geocoding call, otherwise it awaits the sheet
StartNearest(c) ==
    /\ running = 0
    /\ task[c].pc = "idle" /\ task[c].runs < MaxToolRuns
    /\ IF sheet_properties_cache = None
       THEN task' = [task EXCEPT ![c].pc = "await_sheet"] /\ running' = 0
       ELSE task' = [task EXCEPT ![c].pc = "geocoding"] /\ running' = c
    /\ UNCHANGED sheet_properties_cache

\* the executor thread finished get_sheet_as_dataframe
SheetFetched(c, outcome) ==
    /\ task[c].pc = "await_sheet"
    /\ task' = [task EXCEPT ![c].pc = "sheet_ready", ![c].outcome = outcome]
    /\ UNCHANGED <<running, sheet_properties_cache>>

\* the loop resumes the coroutine (lines 139-147, 433-439): without a catalog
\* it returns, with one it calls geocode_address_google, whose requests.get
\* (line 324) is not awaited
ResumeNearest(c) ==
    /\ running = 0
    /\ task[c].pc = "sheet_ready"
    /\ IF task[c].outcome = "rows"
       THEN /\ sheet_properties_cache' = Some(SheetSample)
            /\ task' = [task EXCEPT ![c].pc = "geocoding", ![c].outcome = "none"]
            /\ running' = c
       ELSE /\ task' = [task EXCEPT ![c] = [IdleTool EXCEPT !.runs = task[c].runs + 1]]
            /\ UNCHANGED <<running, sheet_properties_cache>>

\* requests.get returned or raised; the rest of the tool has no await
\* (lines 326-549)
GeocodeReturned(c) ==
    /\ task[c].pc = "geocoding" /\ running = c
    /\ task' = [task EXCEPT ![c] = [IdleTool EXCEPT !.runs = task[c].runs + 1]]
    /\ running' = 0
    /\ UNCHANGED sheet_properties_cache

\* get_all_room_availability is invoked and awaits the Warden API (line 1933)
StartAvailability(c) ==
    /\ running = 0
    /\ task[c].pc = "idle" /\ task[c].runs < MaxToolRuns
    /\ task' = [task EXCEPT ![c].pc = "await_availability"]
    /\ UNCHANGED <<running, sheet_properties_cache>>

\* the response of the Warden API arrived
AvailabilityFetched(c) ==
    /\ task[c].pc = "await_availability"
    /\ task' = [task EXCEPT ![c].pc = "availability_ready"]
    /\ UNCHANGED <<running, sheet_properties_cache>>

\* the loop resumes the coroutine, which runs to its return (lines 1934-2036)
ResumeAvailability(c) ==
    /\ running = 0
    /\ task[c].pc = "availability_ready"
    /\ task' = [task EXCEPT ![c] = [IdleTool EXCEPT !.runs = task[c].runs + 1]]
    /\ UNCHANGED <<running, sheet_properties_cache>>

\* a step of call c's coroutine on the loop's thread
TaskStep(c) ==
    \/ StartNearest(c)
    \/ ResumeNearest(c)
    \/ StartAvailability(c)
    \/ ResumeAvailability(c)

SchedFrame ==
    UNCHANGED <<cacheVars, sessVars, toolVars, exploreCall, dbVars, properties_data_cache,
                properties_lock, loader, loadStats, nLoads>>

SchedInit ==
    /\ CacheVarsInit /\ SessVarsInit /\ ToolVarsInit /\ MoreVarsInit /\ LoadersIdle
    /\ properties_data_cache = None
    /\ sheet_properties_cache \in {None, Some(SheetSample)}

SchedNext ==
    \/ \E c \in Calls : StartNearest(c) /\ SchedFrame
    \/ \E c \in Calls, outcome \in {"none", "rows"} : SheetFetched(c, outcome) /\ SchedFrame
    \/ \E c \in Calls : ResumeNearest(c) /\ SchedFrame
    \/ \E c \in Calls : GeocodeReturned(c) /\ SchedFrame
    \/ \E c \in Calls : StartAvailability(c) /\ SchedFrame
    \/ \E c \in Calls : AvailabilityFetched(c) /\ SchedFrame
    \/ \E c \in Calls : ResumeAvailability(c) /\ SchedFrame

SpecSched == SchedInit /\ [][SchedNext]_vars

\* call d's coroutine has a step to take: a tool to start or a result to consume
Ready(d) ==
    \/ task[d].pc \in {"sheet_ready", "availability_ready"}
    \/ task[d].pc = "idle" /\ task[d].runs < MaxToolRuns

\* C23: while a call's geocoding request is outstanding the other calls can
\* still take steps: in no reachable state is a geocoding request outstanding
\* while another call has a step to take and no other call can take one.
C23_GeocodingDoesNotBlockOthers ==
    ~ \E c \in Calls :
          /\ task[c].pc = "geocoding"
          /\ \E d \in Calls \ {c} : Ready(d)
          /\ \A d \in Calls \ {c} : ~ ENABLED (TaskStep(d) /\ SchedFrame)

\* ------------------------------------------------ claims on the entry's lifetime
\* the call has installed its context and its session has not closed
InCall(c) == call[c].pc = "active"

\* no call for user_id is under way, cleanup included
Quiet(user_id) ==
    \A c \in Calls : call[c].pc \in {"idle", "done"} \/ call[c].id # user_id

\* the cache holds an entry for the identifier of every call between its
\* install and its close
C24_EntryHeldDuringCall ==
    \A c \in Calls : InCall(c) => call[c].id \in DOMAIN user_context_cache

\* once every call for an identifier is over and cleaned up, no entry is left
C24_EntryAbsentAfterCleanup ==
    \A u \in UserIds : Quiet(u) => u \notin DOMAIN user_context_cache

\* C24: for every identifier and every interleaving of calls, two overlapping
\* calls with one identifier included, the cache holds an entry for the
\* identifier from the call's install until its session closes, and holds none
\* once no call for the identifier is active and its cleanup has completed.
C24_OneEntryPerActiveCall ==
    /\ C24_EntryHeldDuringCall
    /\ C24_EntryAbsentAfterCleanup

\* ------------------------------------ what find_nearest_property records
\* the entry of user_id holds value at the context key and as a pending update
Recorded(cache, user_id, key, value) ==
    /\ user_id \in DOMAIN cache
    /\ <<key>> \in DOMAIN cache[user_id].context_data
    /\ cache[user_id].context_data[<<key>>] = value
    /\ <<"context_data", key>> \in DOMAIN cache[user_id].pending_updates
    /\ cache[user_id].pending_updates[<<"context_data", key>>] = value

\* the pricing catalog is cached and has rows
CatalogUsable(cache) == cache # None /\ cache[1].rows # <<>>

\* the replies of a call that stopped before the resolution
NearRefusals ==
    {"ask_profession", "ask_timeline", "ask_room", "catalog_unavailable",
     "location_not_found", "no_user_doc", "error", "raised"}

\* C25: find_nearest_property records the query's location text and the
\* nearest property's cluster on the user's cache entry (context updated, both
\* fields pending, entry dirty) exactly when resolution succeeds; on a missing
\* prerequisite, an unavailable catalog or a geocoding failure it returns the
\* corresponding reply and leaves the cache unchanged.
C25_RecordsExactlyOnSuccess ==
    [][nearCall'.n # nearCall.n =>
          /\ nearCall'.reply = "ok" =>
                /\ Recorded(user_context_cache', nearCall'.user,
                            "botLocationPreference", nearCall'.query)
                /\ Recorded(user_context_cache', nearCall'.user,
                            "cluster", NearestCluster')
                /\ user_context_cache'[nearCall'.user].dirty
                /\ CatalogUsable(sheet_properties_cache')
          /\ nearCall'.reply # "ok" =>
                /\ nearCall'.reply \in NearRefusals
                /\ user_context_cache' = user_context_cache
          /\ nearCall'.reply = "catalog_unavailable" =>
                ~CatalogUsable(sheet_properties_cache')
          /\ nearCall'.reply = "location_not_found" =>
                /\ CatalogUsable(sheet_properties_cache')
                /\ PrerequisiteRule(nearCall'.user, "location_not_found")
      ]_vars

\* a resolution recorded on an entry that was clean before it
C25_Witness ==
    /\ nearCall.reply = "ok"
    /\ nearCall.query = "T Nagar"
    /\ Recorded(user_context_cache, nearCall.user, "cluster", nearCall.cluster)
    /\ user_context_cache[nearCall.user].dirty

\* --------------------------- the prerequisites across consecutive tool calls
\* a caller whose stored document holds the three prerequisite fields, with the
\* context installed in the cache or with no cache entry
StableInit ==
    /\ \/ user_context_cache = [u \in {"u1"} |-> NewEntry(CompleteContext)]
       \/ user_context_cache = [u \in {} |-> NewEntry(EmptyDict)]
    /\ context_collection = [u \in {"u1"} |-> UnderContextData(CompleteContext)]
    /\ flushTask = [t \in FlushTasks |-> IdleTask]
    /\ lastFlush = NoFlush
    /\ updLog = [u \in UserIds |-> <<>>]
    /\ installed = DOMAIN user_context_cache
    /\ lastOp = [u \in UserIds |-> OtherOp]
    /\ nOps = 0
    /\ nFlush = 0
    /\ SessVarsInit /\ ToolVarsInit /\ MoreVarsInit /\ LoadersIdle
    /\ properties_data_cache = None
    /\ sheet_properties_cache \in {None} \cup {Some(DataFrame(rows)) : rows \in BudgetSheets}

StableNext ==
    \/ \E user_id \in UserIds, location_query \in LocationQueries :
           FindNearest(user_id, location_query)
    \/ \E user_id \in UserIds, budget_query \in BudgetQueries :
           Budget(user_id, budget_query)

SpecStable == StableInit /\ [][StableNext /\ UNCHANGED moreVars]_vars

\* the stored document of user_id holds the three prerequisite fields and the
\* step leaves the store alone
PrerequisitesUntouched(user_id) ==
    /\ Lacking(ContextOf(context_collection[user_id])) = {}
    /\ UNCHANGED context_collection

\* C26: when find_nearest_property for an identifier passed the prerequisite
\* check, from the cache or from the durable store, and resolved, the next
\* find_nearest_property or properties_according_to_budget call for that
\* identifier, profession, timeline and room type not having changed, is not
\* answered with a prerequisite follow-up.
C26_PrerequisitesStayMet ==
    [][/\ (/\ nearCall.reply = "ok"
           /\ budgetCall'.n # budgetCall.n
           /\ budgetCall'.user = nearCall.user
           /\ PrerequisitesUntouched(nearCall.user))
          => budgetCall'.reply \notin Range(FollowUps)
       /\ (/\ nearCall.reply = "ok"
           /\ nearCall'.n # nearCall.n
           /\ nearCall'.user = nearCall.user
           /\ PrerequisitesUntouched(nearCall.user))
          => nearCall'.reply \notin Range(FollowUps)]_vars

\* --------------------------------------- updates made while a flush waits
\* the positions in the update log of the flushed identifier that were added
\* after flush task t was called and give their path its latest value
UpdatedWhileSuspended(t) ==
    LET log == updLog[flushTask[t].id]
    IN {i \in (Len(flushTask[t].log) + 1)..Len(log) :
           \A j \in (i + 1)..Len(log) : log[j][1] # log[i][1]}

\* the durable store holds value at path of user_id's document
Stored(coll, user_id, path, value) ==
    /\ user_id \in DOMAIN coll
    /\ path \in DOMAIN coll[user_id]
    /\ coll[user_id][path] = value

\* the cache holds (path, value) as a pending update of user_id
Pending(cache, user_id, path, value) ==
    /\ user_id \in DOMAIN cache
    /\ path \in DOMAIN cache[user_id].pending_updates
    /\ cache[user_id].pending_updates[path] = value

\* C27: when update(id, path -> value) runs while flush(id) is suspended on the
\* durable store, then once that flush has returned success either the store
\* holds value at path or the cache still holds (path, value) as a pending
\* update for id.
C27_NoUpdateLostToFlush ==
    [][\A t \in FlushTasks :
          (/\ flushTask[t].pc = "update_one_sent"
           /\ flushTask'[t].pc = "idle"
           /\ flushTask[t].attached
           /\ lastFlush'.ret)
          => \A i \in UpdatedWhileSuspended(t) :
                LET user_id == flushTask[t].id
                    path == updLog[user_id][i][1]
                    value == updLog[user_id][i][2]
                IN \/ Stored(context_collection', user_id, path, value)
                   \/ Pending(user_context_cache', user_id, path, value)]_vars

\* ------------------------------------------- one name, two resolving tools
\* C28: for every API catalog and every property name, the entry that
\* query_property_information selects for the name is the entry whose id
\* get_properties_id_from_name returns for it, and both find nothing for the
\* same names.
C28_SameEntryInBothTools ==
    nameCall.done => nameCall.matched = nameCall.ret

\* ------------------------------------------ the shared pricing catalog
\* C29: the resolvers only read the shared pricing catalog: once it is loaded,
\* no find_nearest_property or properties_according_to_budget call changes its
\* rows, its columns or its cell values.
C29_CatalogOnlyRead ==
    [][sheet_properties_cache # None => sheet_properties_cache' = sheet_properties_cache]_vars

\* ------------------------------ get_async_client (database.py lines 23-57)
\* callers on one event loop; `clients` is _clients[loop], None while the loop
\* has no entry; a client is known by the order of its construction
\* lines 31-45: `if loop not in _clients` and the construction of a client, up
\* to the await of the ping; or line 57 at once when the loop has a client
GetClient(w) ==
    /\ dbTask[w].pc = "idle"
    /\ dbTask[w].calls < MaxDbCalls
    /\ IF clients = None
       THEN /\ nClients' = nClients + 1
            /\ dbTask' = [dbTask EXCEPT ![w] = [@ EXCEPT !.pc = "ping", !.client = nClients + 1,
                                                       !.calls = @ + 1]]
            /\ UNCHANGED clients
       ELSE /\ dbTask' = [dbTask EXCEPT ![w] = [@ EXCEPT !.got = clients[1], !.calls = @ + 1]]
            /\ UNCHANGED <<clients, nClients>>

\* lines 48-51 and 57: the ping returned; _clients[loop] = client;
\* return _clients[loop]
PingReturned(w) ==
    /\ dbTask[w].pc = "ping"
    /\ clients' = Some(dbTask[w].client)
    /\ dbTask' = [dbTask EXCEPT ![w] = [@ EXCEPT !.pc = "idle", !.got = clients'[1]]]
    /\ UNCHANGED nClients

\* lines 52-54: the ping raised; the error is logged and raised again
PingRaised(w) ==
    /\ dbTask[w].pc = "ping"
    /\ dbTask' = [dbTask EXCEPT ![w] = [@ EXCEPT !.pc = "idle", !.client = 0]]
    /\ UNCHANGED <<clients, nClients>>

DbInit == CacheVarsInit /\ SessVarsInit /\ LoadVarsInit /\ ToolVarsInit /\ MoreVarsInit

DbNext ==
    \/ \E w \in DbCallers : GetClient(w)
    \/ \E w \in DbCallers : PingReturned(w)
    \/ \E w \in DbCallers : PingRaised(w)

SpecDb ==
    DbInit /\ [][DbNext /\ UNCHANGED <<cacheVars, sessVars, loadVars, toolVars,
                                       exploreCall, schedVars>>]_vars

\* the clients that were constructed and whose connection check has not failed:
\* under check, cached, or handed to a caller
LiveClients ==
    {dbTask[w].client : w \in {v \in DbCallers : dbTask[v].pc = "ping"}}
    \cup (IF clients = None THEN {} ELSE {clients[1]})
    \cup {dbTask[w].got : w \in {v \in DbCallers : dbTask[v].got # 0}}

\* a step in which the connection check of caller w failed
CheckFailed(w) ==
    /\ dbTask[w].pc = "ping"
    /\ dbTask'[w].pc = "idle"
    /\ dbTask'[w].got = 0

\* C30: for any interleaving of concurrent first calls to get_async_client on
\* one event loop, at most one client is created for the loop apart from those
\* whose connection check failed, every caller receives that same client, and a
\* client whose connection check fails is not cached.
C30_OneClientPerLoop ==
    /\ [](Cardinality(LiveClients) <= 1)
    /\ [](\A w \in DbCallers, v \in DbCallers :
             (dbTask[w].got # 0 /\ dbTask[v].got # 0) => dbTask[w].got = dbTask[v].got)
    /\ [][\A w \in DbCallers : CheckFailed(w) => clients' = clients]_vars


====
